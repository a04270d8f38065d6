-------------------------- MODULE EventDispatcher --------------------------
(***************************************************************************)
(* EventDispatcher: subscriptions under a shared_mutex.  dispatch holds    *)
(* the lock shared for the whole loop, the callbacks included; subscribe,  *)
(* unsubscribe and clear hold it exclusively and do nothing else, so they  *)
(* are single steps that wait until no dispatch is under way.  Callbacks   *)
(* do not call back into the dispatcher.  A refused call (null listener,   *)
(* invalid or unknown token) changes nothing and is not an action.         *)
(***************************************************************************)
EXTENDS Sequences, Functions, Selection

CONSTANTS
  Threads,
  Listeners,   \* who may subscribe: IEventListener objects and callbacks
  Filters,     \* the EventFilter values subscribers use
  MaxTokens    \* bound on the number of subscriptions ever made

VARIABLES
  subscribers, token_counter,
  thread       \* what each dispatching thread is doing

dispatcherVars == <<subscribers, token_counter, thread>>

Idle == [phase |-> "idle"]

(* EventFilter::matches; kUnknown stands for any category or type. *)
matches(filter, e) ==
  /\ filter.category \in {"kUnknown", e.category}
  /\ filter.type \in {"kUnknown", e.type}
  /\ e.priority >= filter.min_priority

ExclusiveLock == \A t \in Threads : thread[t] = Idle

DispatcherInit(first) ==
  /\ subscribers = first
  /\ token_counter = Len(first)
  /\ thread = [t \in Threads |-> Idle]

subscribe(listener, filter) ==
  /\ ExclusiveLock
  /\ token_counter < MaxTokens
  /\ token_counter' = token_counter + 1
  /\ subscribers' = Append(subscribers,
       [token |-> token_counter + 1, listener |-> listener, filter |-> filter])
  /\ UNCHANGED thread

Others(token) == {i \in DOMAIN subscribers : subscribers[i].token # token}

unsubscribe_Unlocked(token) ==
  /\ \E s \in Range(subscribers) : s.token = token
  /\ subscribers' \in KeptAt(subscribers, Others(token))
  /\ UNCHANGED <<token_counter, thread>>

unsubscribe(token) ==
  /\ ExclusiveLock
  /\ \E s \in Range(subscribers) : s.token = token
  /\ subscribers' \in KeptAt(subscribers, Others(token))
  /\ UNCHANGED <<token_counter, thread>>

clear ==
  /\ ExclusiveLock
  /\ subscribers' = << >>
  /\ UNCHANGED <<token_counter, thread>>

-----------------------------------------------------------------------------
(* dispatch, from taking the shared lock to releasing it. *)

DispatchBegin(t, e) ==
  /\ thread[t] = Idle
  /\ thread' = [thread EXCEPT ![t] =
       [phase |-> "scan", event |-> e, at |-> 1, called |-> << >>]]
  /\ UNCHANGED <<subscribers, token_counter>>

DispatchScan_Stays(t) ==
  /\ thread[t].phase = "scan"
  /\ thread[t].at <= Len(subscribers)
  /\ matches(subscribers[thread[t].at].filter, thread[t].event)
  /\ thread' = [thread EXCEPT ![t].phase = "calling"]
  /\ UNCHANGED <<subscribers, token_counter>>

DispatchScan(t) ==
  /\ thread[t].phase = "scan"
  /\ thread[t].at <= Len(subscribers)
  /\ thread' =
       IF matches(subscribers[thread[t].at].filter, thread[t].event)
       THEN [thread EXCEPT ![t].phase = "calling"]
       ELSE [thread EXCEPT ![t].at = @ + 1]
  /\ UNCHANGED <<subscribers, token_counter>>

Calling(t, listener) ==
  thread[t].phase = "calling" /\ subscribers[thread[t].at].listener = listener

CallbackReturns(t) ==
  /\ thread' = [thread EXCEPT
       ![t].phase = "scan",
       ![t].at = @ + 1,
       ![t].called = Append(@, subscribers[thread[t].at].token)]
  /\ UNCHANGED <<subscribers, token_counter>>

DispatchReturn(t) ==
  /\ thread[t].phase = "scan"
  /\ thread[t].at > Len(subscribers)
  /\ thread' = [thread EXCEPT ![t] = Idle]
  /\ UNCHANGED <<subscribers, token_counter>>

-----------------------------------------------------------------------------
(* While a dispatch runs, the subscriptions it walks over do not change    *)
(* under it: every matching subscriber before its position was called once *)
(* and in order, and the one it is calling is still subscribed.  So a      *)
(* listener whose unsubscribe has returned is never called again.          *)
DispatchSeesOneList ==
  \A t \in Threads : thread[t] # Idle =>
    LET due == {i \in 1 .. thread[t].at - 1 :
                  matches(subscribers[i].filter, thread[t].event)}
    IN /\ thread[t].at <= Len(subscribers) + 1
       /\ \E called \in KeptAt(subscribers, due) :
            thread[t].called = [k \in DOMAIN called |-> called[k].token]
       /\ thread[t].phase = "calling" =>
            /\ thread[t].at <= Len(subscribers)
            /\ matches(subscribers[thread[t].at].filter, thread[t].event)
=============================================================================
