------------------------------- MODULE Binary -------------------------------
(***************************************************************************)
(* The reads of src/pybmpmon/utils/binary.py.  Octets are numbered from 0,  *)
(* as in the code; a sequence of TLA+ starts at 1.  Integers are in network *)
(* order.  Every read of the code first checks that its octets are there    *)
(* (Holds) and raises ValueError if they are not; here a read is taken only  *)
(* where Holds, or a stronger check of the parser, has been made.           *)
(***************************************************************************)
EXTENDS Integers, Sequences

Octet == 0..255

Holds(data, offset, length) == offset + length <= Len(data)

ReadUint8(data, offset) == data[offset + 1]

ReadUint16(data, offset) == 256 * data[offset + 1] + data[offset + 2]

ReadUint32(data, offset) == 65536 * ReadUint16(data, offset) + ReadUint16(data, offset + 2)

ReadBytes(data, offset, length) == SubSeq(data, offset + 1, offset + length)
=============================================================================
