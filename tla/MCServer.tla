------------------------------ MODULE MCServer ------------------------------
(* Server with four scopes.  User ids have the form x-xx.  Two scopes are of *)
(* such users and would share a table if the parts were joined without       *)
(* separators; a client id that differs in case shares the table of the      *)
(* first, and so does a scope whose user is not of that form.                *)
EXTENDS Server

MCScopes ==
  {[app |-> <<"a">>, user |-> <<"a", "-", "b", "b">>, dataset |-> <<"-", "b", "b", "0">>],
   [app |-> <<"a", "a", "-", "b">>, user |-> <<"b", "-", "b", "b">>, dataset |-> <<"0">>],
   [app |-> <<"A">>, user |-> <<"a", "-", "b", "b">>, dataset |-> <<"-", "b", "b", "0">>],
   [app |-> <<"a", "-", "a">>, user |-> <<"b", "b">>, dataset |-> <<"-", "b", "b", "0">>]}

\* UUIDs are of a form that does not overlap itself.
ASSUME UUIDAssumption ==
  LET frame == {0, 37} \cup {9, 14, 19, 24}
  IN  \A k \in 1 .. 36 : \E j \in 0 .. 37 - k : ~(j \in frame <=> j + k \in frame)
=============================================================================
