---------------------------- MODULE MCObservers ----------------------------
(***************************************************************************)
(* State that others are told of, for TLC: the session of Auth with its    *)
(* listeners and the results of a Data Connect query with its subscribers. *)
(* `part` says which one a behaviour exercises; the other stays in its     *)
(* initial state.                                                          *)
(***************************************************************************)
EXTENDS AuthSession

CONSTANTS Subscribers

VARIABLES part,
          override, connecting, transport, cached, managers, dcCalls, fetches, version, now, results, seen

Connect == INSTANCE DataConnect WITH
  Tasks <- Subscribers, MaxFetches <- 2, MaxVersion <- 1, MaxManagers <- 2, calls <- dcCalls

dcVars == <<override, connecting, transport, cached, managers, dcCalls, fetches, version, now, results, seen>>
allVars == <<part, vars, dcVars>>

\* One initial state of the part that is not exercised.
ObserversInit ==
  /\ part \in {"session", "dataConnect"}
  /\ Init /\ Connect!Init
  /\ part # "dataConnect" => ~override

ObserversNext ==
  \/ part = "session" /\ Next /\ UNCHANGED <<part, dcVars>>
  \/ /\ part = "dataConnect" /\ Connect!Next /\ UNCHANGED <<part, vars>>
     /\ Len(managers') > 1 => version' = 0                  \* bound: a mutation falls within the time of one manager
     /\ managers' # <<>> => transport'.emulator /\ ~connecting'  \* bound: which backend it is makes no difference there

ObserversSpec == ObserversInit /\ [][ObserversNext]_allVars
-----------------------------------------------------------------------------
\* However a subscription and fetches interleave, a subscriber ends up told the
\* fetched result its manager caches (DataConnect).
SubscribersSeeTheCache == part = "dataConnect" => Connect!SubscribersSeeTheCache
=============================================================================
