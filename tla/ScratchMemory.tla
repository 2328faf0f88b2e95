---------------------------- MODULE ScratchMemory ----------------------------
(***************************************************************************)
(* What an arena promises to callers that rewind their marks in the order  *)
(* opposite to the one they took them in: an object is nobody else's and   *)
(* holds what was written to it until its scope is rewound; keeping a      *)
(* scope gives its objects to the scope around it.                         *)
(***************************************************************************)
EXTENDS Naturals, Sequences

VARIABLES
  contents,   \* what each live object holds
  scopes      \* the objects of every open scope, the outermost first

Init == contents = << >> /\ scopes = <<{}>>

Inner == scopes[Len(scopes)]
Outer == SubSeq(scopes, 1, Len(scopes) - 1)

New ==
  \E h \in DOMAIN contents' \ DOMAIN contents :
    /\ contents' = [x \in DOMAIN contents \cup {h} |-> IF x = h THEN contents'[h] ELSE contents[x]]
    /\ scopes' = [scopes EXCEPT ![Len(scopes)] = @ \cup {h}]
Write ==
  /\ DOMAIN contents' = DOMAIN contents
  /\ \E h \in DOMAIN contents :
       /\ DOMAIN contents'[h] = DOMAIN contents[h]
       /\ \A x \in DOMAIN contents \ {h} : contents'[x] = contents[x]
  /\ UNCHANGED scopes
Open == scopes' = Append(scopes, {}) /\ UNCHANGED contents
Close ==
  /\ Len(scopes) > 1
  /\ scopes' = Outer
  /\ contents' = [x \in DOMAIN contents \ Inner |-> contents[x]]
Keep ==
  /\ Len(scopes) > 1
  /\ scopes' = [Outer EXCEPT ![Len(Outer)] = @ \cup Inner]
  /\ UNCHANGED contents
Clear == scopes' = <<{}>> /\ contents' = << >>

Next == New \/ Write \/ Open \/ Close \/ Keep \/ Clear
Spec == Init /\ [][Next]_<<contents, scopes>>

=============================================================================
