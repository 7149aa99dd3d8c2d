---------------------------- MODULE WindowServer ----------------------------
(***************************************************************************)
(* What the async model promises the game: the window server's side of     *)
(* EventReady and GetEvent, with no ids, no ledger and no status words.    *)
(* Asking for an event either waits or is answered at once; an answer      *)
(* stands for exactly one event that has arrived and is not fetched yet;   *)
(* answers and events are both in order of arrival.                        *)
(***************************************************************************)
EXTENDS Integers, Sequences, SequencesExt

CONSTANTS
  Clients,    \* who may ask: the status words of the game
  Arrivals    \* sequences of events that may arrive together

VARIABLES
  unread,     \* events that arrived and were not fetched
  waiting,    \* clients that asked and were not answered, in order
  notified    \* clients answered whose event was not fetched, in order

serverVars == <<unread, waiting, notified>>

ServerInit ==
  /\ unread = <<>>
  /\ waiting = <<>>
  /\ notified = <<>>

\* How many of the waiting clients n new events answer.
Answers(n) == IF n < Len(waiting) THEN n ELSE Len(waiting)

Answered(n) == notified \o SubSeq(waiting, 1, Answers(n))

Arrive(evs) ==
  /\ unread' = unread \o evs
  /\ notified' = Answered(Len(evs))
  /\ waiting' = SubSeq(waiting, Answers(Len(evs)) + 1, Len(waiting))

Ask(a) ==
  /\ a \notin ToSet(waiting) \cup ToSet(notified)
  /\ \/ /\ Len(notified) < Len(unread)
        /\ notified' = Append(notified, a)
        /\ UNCHANGED waiting
     \/ /\ Len(notified) = Len(unread)
        /\ waiting' = Append(waiting, a)
        /\ UNCHANGED notified
  /\ UNCHANGED unread

\* Fetching takes the oldest event, and with it the oldest answer if any.
Fetch ==
  /\ unread # <<>>
  /\ unread' = Tail(unread)
  /\ notified' = IF notified = <<>> THEN <<>> ELSE Tail(notified)
  /\ UNCHANGED waiting

\* Events arrive in the very call that fetches the first of them.
ArriveAndFetch(evs) ==
  /\ unread = <<>>
  /\ evs # <<>>
  /\ unread' = Tail(evs)
  /\ notified' = IF Answered(Len(evs)) = <<>> THEN <<>>
                 ELSE Tail(Answered(Len(evs)))
  /\ waiting' = SubSeq(waiting, Answers(Len(evs)) + 1, Len(waiting))

Withdraw(a) ==
  /\ a \in ToSet(waiting)
  /\ waiting' = RemoveFirst(waiting, a)
  /\ UNCHANGED <<unread, notified>>

ServerNext ==
  \/ \E evs \in Arrivals : Arrive(evs) \/ ArriveAndFetch(evs)
  \/ \E a \in Clients : Ask(a) \/ Withdraw(a)
  \/ Fetch

ServerSpec == ServerInit /\ [][ServerNext]_serverVars
=============================================================================
