------------------------------ MODULE FieldLevels ------------------------------
(***************************************************************************)
(* The fields of a DEFINE DATA section or a map come as a list, each with  *)
(* its level.  parseDataFields and parseMap find the parent of a field     *)
(* with a stack of the fields that may still have children, here by their  *)
(* places in the list; 0 is the section itself.                            *)
(***************************************************************************)
EXTENDS Integers, Sequences

\* The stack without the fields over the topmost one that passes the test.
PoppedTo(stack, passing) ==
  IF passing = {} THEN <<>>
  ELSE SubSeq(stack, 1, CHOOSE m \in passing : \A n \in passing : n =< m)

\* A bug the stack could have: a field of the same level stays and becomes the
\* owner of its sibling.
PushedUnderSibling(fields, stack, level) ==
  PoppedTo(stack, {m \in DOMAIN stack : fields[stack[m]].level =< level})

\* The parents of the next field: fields are popped while their level is not
\* less than its own.
Pushed(fields, stack, level) ==
  PoppedTo(stack, {m \in DOMAIN stack : fields[stack[m]].level < level})

\* The parent of a field that is added under the rest of the stack.
ParentUnder(above) == IF above = <<>> THEN 0 ELSE above[Len(above)]

\* The field a level belongs to: the nearest one before it with a smaller level.
OwnerOf(fields, k) ==
  LET above == {j \in 1..(k - 1) : fields[j].level < fields[k].level}
  IN  IF above = {} THEN 0 ELSE CHOOSE j \in above : \A i \in above : i =< j
===============================================================================
