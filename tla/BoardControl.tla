---------------------------- MODULE BoardControl ----------------------------
(***************************************************************************)
(* What the commands of src/libraries/command promise the application      *)
(* about the board they control.  A call changes no other setting than the *)
(* one it was made for, and that one to what it keeps of the value given,  *)
(* at most once, after the calls before it and possibly long after it has  *)
(* failed.                                                                 *)
(* As long as no call has failed since the connection was opened, a call   *)
(* that returns was carried out before it returned, and the value it       *)
(* returns is one the board had meanwhile.  After a failure nothing is     *)
(* promised of the calls that return, until the connection is opened       *)
(* again.  Switching the board off is turned round: if that call returns,  *)
(* the board was left on.  Values the commands refuse never reach it.      *)
(***************************************************************************)
EXTENDS Integers, Sequences

CONSTANTS
  Power,         \* the setting that says whether the board is on
  Sensed,        \* the settings the board changes by itself
  Refused(_, _), \* the values a setting must not be given
  Kept(_, _)     \* what a setting becomes when it is given a value

VARIABLES
  values,   \* of each setting, a sequence of numbers
  pending,  \* the calls the board may still carry out
  call,     \* the call in progress
  answer,   \* <<>>, or <<v>>: v is what its setting was when it was carried out
  exact,    \* whether no call has failed since the connection was opened
  got       \* the last call that returned, with the value it returned

vars == <<values, pending, call, answer, exact, got>>

NoCall == [n |-> 0, of |-> <<>>, want |-> <<>>]

Init ==
  /\ pending = {} /\ call = NoCall /\ answer = <<>> /\ exact = TRUE
  /\ got = [n |-> 0, of |-> <<>>, value |-> <<>>]

Begin ==
  /\ call = NoCall /\ call'.n > 0 /\ \A p \in pending : p.n < call'.n
  /\ ~Refused(call'.of, call'.want)
  /\ pending' = pending \cup {call'}
  /\ UNCHANGED <<values, answer, exact, got>>

(* The board carries out one of them, and perhaps answers.                 *)
Acts ==
  \E p \in pending :
    /\ pending' = {q \in pending : q.n > p.n}
    /\ \/ values' = values /\ (p.want = <<>> \/ p.of = Power)
       \/ p.want # <<>> /\ values' = [values EXCEPT ![p.of] = Kept(p.of, p.want)]
    /\ answer' \in {answer} \cup (IF p.n = call.n THEN {<<values'[p.of]>>} ELSE {})
    /\ UNCHANGED <<call, exact, got>>

(* Or it ignores the oldest.                                               *)
Ignores ==
  /\ \E p \in pending : pending' = {q \in pending : q.n > p.n}
  /\ UNCHANGED <<values, call, answer, exact, got>>

Returns ==
  /\ call # NoCall /\ call' = NoCall /\ answer' = <<>>
  /\ got'.n = call.n /\ got'.of = call.of
  /\ exact =>
       /\ answer # <<>>
       /\ call.of = Power => answer[1] # call.want
       /\ call.want = <<>> => got'.value = answer[1]
  /\ UNCHANGED <<values, pending, exact>>

Fails ==
  /\ call # NoCall /\ call' = NoCall /\ answer' = <<>> /\ exact' = FALSE
  /\ UNCHANGED <<values, pending, got>>

Reopens ==
  /\ call = NoCall /\ exact' = TRUE
  /\ UNCHANGED <<values, pending, call, answer, got>>

Changes ==
  /\ \E k \in Sensed : values' = [values EXCEPT ![k] = values'[k]]
  /\ UNCHANGED <<pending, call, answer, exact, got>>

Next == Begin \/ Acts \/ Ignores \/ Returns \/ Fails \/ Reopens \/ Changes

Spec == Init /\ [][Next]_vars
=============================================================================
