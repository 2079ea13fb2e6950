---------------------------- MODULE SchemaLedger ----------------------------
(***************************************************************************)
(* What the migration runner promises of a database, whoever starts on it: *)
(* the files in effect grow one at a time and are never taken back, and    *)
(* each was added by a container whose release has exactly the files that  *)
(* were in effect, followed by this one.                                   *)
(***************************************************************************)
EXTENDS Naturals, Sequences

CONSTANT Releases    \* the releases: sequences of files

VARIABLE applied     \* the files in effect, in order

Init == applied = <<>>

(* A release that begins with what is in effect and goes on.                 *)
GoesOn(rel) ==
  /\ Len(applied) < Len(rel)
  /\ \A i \in DOMAIN applied : applied[i] = rel[i]

Apply(rel) ==
  /\ GoesOn(rel)
  /\ applied' = Append(applied, rel[Len(applied) + 1])

Next == \E rel \in Releases : Apply(rel)

Spec == Init /\ [][Next]_applied
=============================================================================
