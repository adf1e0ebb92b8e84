------------------------------- MODULE Events -------------------------------
(***************************************************************************)
(* Events and components of the controller: EventMixin of                  *)
(* pox/lib/revent/revent.py and the registry of pox/core.py that uses it.  *)
(* register raises ComponentRegistered; a sink (a component with           *)
(* dependencies) listens until listenToDependencies has found all of them. *)
(* Other handlers of the event do anything a handler may do: add and       *)
(* remove listeners, register components (which raises the event again,    *)
(* inside the first one), stop the event, or raise an exception.           *)
(***************************************************************************)
EXTENDS Integers, Sequences, FiniteSets, SequencesExt

CONSTANTS
    Names,      \* names of components
    Sinks,      \* components that wait for others
    Wants,      \* [Sinks -> SUBSET Names]
    Other,      \* any other listener
    Priorities, \* what listeners are added with; 0 stands for None
    MaxRegs,    \* bound: calls of register
    MaxAdds,    \* bound: other listeners added
    MaxDepth    \* bound: events raised inside one another

ASSUME EventsAssumption ==
    /\ Wants \in [Sinks -> SUBSET Names] /\ Other \notin Sinks /\ Priorities \subseteq Nat
    /\ MaxRegs \in Nat /\ MaxAdds \in Nat /\ MaxDepth \in Nat

VARIABLES
    components, \* core.components
    handlers,   \* the list of listeners, each [pri, who, once, eid]
    frames,     \* the raiseEvents under way, the innermost last
    wants,      \* what each sink still waits for
    bound,      \* [Sinks -> the components listened to, in order]
    launched,   \* the sinks that exist
    unheard,    \* components whose event ended early, with no full one since
    eid, regs, adds

vars == <<components, handlers, frames, wants, bound, launched, unheard, eid, regs, adds>>

Init ==
    /\ components = {} /\ handlers = <<>> /\ frames = <<>>
    /\ wants = Wants /\ bound = [s \in Sinks |-> <<>>] /\ launched = {} /\ unheard = {}
    /\ eid = 0 /\ regs = 0 /\ adds = 0

-----------------------------------------------------------------------------
(* EventMixin.                                                             *)

Eids(list) == {list[i].eid : i \in DOMAIN list}

\* A loop over handlers goes over the list object itself: live says that it is
\* still the one in _eventMixin_handlers, list is what it was when replaced.
Loop(f) == IF f.live THEN handlers ELSE f.list
Frame(name) ==
    [name |-> name, live |-> TRUE, list |-> <<>>, next |-> 1, inside |-> 0,
     called |-> <<>>, start |-> Eids(handlers), known |-> components']
Top == Last(frames)
SetTop(f) == Append(Front(frames), f)

\* addListener: the entry is appended to the list in place, and the list sorted
\* in place (highest first, keeping the order of equals) when it has a priority.
\* The list is in that order all along, with None below every priority, so the
\* entry ends up behind those that are not below it.
Inserted(list, e) ==
    InsertAt(list, Cardinality({i \in DOMAIN list : list[i].pri >= e.pri}) + 1, e)
addListener(who, pri, once) ==
    /\ eid' = eid + 1
    /\ handlers' = Inserted(handlers, [pri |-> pri, who |-> who, once |-> once, eid |-> eid + 1])

\* removeListener makes a new list, also when there is nothing to remove: loops
\* under way go on over the old one.
KeptInPlace(fs) == fs
Detached(fs) == [i \in DOMAIN fs |-> IF fs[i].live THEN [fs[i] EXCEPT !.live = FALSE, !.list = handlers]
                                   ELSE fs[i]]
\* The eids differ: at most one entry goes.
Without(e) ==
    IF e \in Eids(handlers)
      THEN RemoveAt(handlers, CHOOSE i \in DOMAIN handlers : handlers[i].eid = e)
      ELSE handlers

-----------------------------------------------------------------------------
(* POXCore.                                                                *)

\* listenToDependencies: what is there by now is listened to and not waited for
\* any more (the set given is changed).
Found(s) == wants[s] \cap components
listenAndKeepWaiting(s) ==
    /\ bound' = [bound EXCEPT ![s] = @ \o SetToSeq(Found(s))]
    /\ UNCHANGED wants
listenToDependencies(s) ==
    /\ bound' = [bound EXCEPT ![s] = @ \o SetToSeq(Found(s))]
    /\ wants' = [wants EXCEPT ![s] = @ \ Found(s)]
ReadyWithSome(s) == Found(s) # {}
Ready(s) == wants[s] \subseteq components

\* Code runs at the top level or inside a handler that is not a sink's.
Running == IF frames = <<>> THEN TRUE ELSE Top.inside # 0

\* A sink is made: it looks for its dependencies, and listens if some are missing.
launch(s) ==
    /\ Running /\ s \notin launched /\ launched' = launched \cup {s}
    /\ listenToDependencies(s)
    /\ IF Ready(s) THEN UNCHANGED <<handlers, eid>> ELSE addListener(s, 0, FALSE)
    /\ UNCHANGED <<components, frames, unheard, regs, adds>>

\* raiseEventNoErrors(ComponentRegistered): no event without listeners.
Raise(name) == frames' = IF handlers = <<>> THEN frames ELSE Append(frames, Frame(name))

register(name) ==
    /\ Running /\ Len(frames) < MaxDepth /\ regs < MaxRegs /\ regs' = regs + 1
    /\ components' = components \cup {name}
    /\ Raise(name)
    /\ UNCHANGED <<handlers, wants, bound, launched, unheard, eid, adds>>

listen ==
    /\ Running /\ adds < MaxAdds /\ adds' = adds + 1
    /\ \E pri \in Priorities, once \in BOOLEAN : addListener(Other, pri, once)
    /\ UNCHANGED <<components, frames, wants, bound, launched, unheard, regs>>

removeListener ==
    /\ Running
    /\ \E h \in Range(handlers) : h.who = Other /\ handlers' = Without(h.eid)
    /\ frames' = Detached(frames)
    /\ UNCHANGED <<components, wants, bound, launched, unheard, eid, regs, adds>>

-----------------------------------------------------------------------------
(* The loop of raiseEvent.                                                 *)

Called(h) == [Top EXCEPT !.next = @ + 1, !.called = Append(@, h.eid)]
Turn == frames # <<>> /\ Top.inside = 0 /\ Top.next <= Len(Loop(Top))

\* A sink's _handle_ComponentRegistered, with EventRemove when it is ready.
InvokeSink ==
    /\ Turn
    /\ LET h == Loop(Top)[Top.next] IN
       /\ h.who # Other /\ listenToDependencies(h.who)
       /\ IF Ready(h.who)
            THEN handlers' = Without(h.eid) /\ frames' = Detached(SetTop(Called(h)))
            ELSE frames' = SetTop(Called(h)) /\ UNCHANGED handlers
    /\ UNCHANGED <<components, launched, unheard, eid, regs, adds>>

InvokeOther ==
    /\ Turn
    /\ LET h == Loop(Top)[Top.next] IN
       h.who = Other /\ frames' = SetTop([Called(h) EXCEPT !.inside = h.eid])
    /\ UNCHANGED <<components, handlers, wants, bound, launched, unheard, eid, regs, adds>>

\* It returns: the entry is removed if it was for once or the handler says so,
\* and the event may end.
HandlerReturns ==
    /\ frames # <<>> /\ Top.inside # 0
    /\ LET was == Top.inside IN
       \E remove, halt \in BOOLEAN :
         LET fs == IF halt THEN Front(frames) ELSE SetTop([Top EXCEPT !.inside = 0]) IN
         /\ IF remove \/ \E i \in DOMAIN Loop(Top) : Loop(Top)[i].eid = was /\ Loop(Top)[i].once
              THEN handlers' = Without(was) /\ frames' = Detached(fs)
              ELSE frames' = fs /\ UNCHANGED handlers
         /\ unheard' = IF halt THEN unheard \cup {Top.name} ELSE unheard
    /\ UNCHANGED <<components, wants, bound, launched, eid, regs, adds>>

\* raiseEventNoErrors catches the exception outside the loop: no other handler is
\* called.
HandlerRaises ==
    /\ frames # <<>> /\ Top.inside # 0
    /\ frames' = Front(frames) /\ unheard' = unheard \cup {Top.name}
    /\ UNCHANGED <<components, handlers, wants, bound, launched, eid, regs, adds>>

LoopEnds ==
    /\ frames # <<>> /\ Top.inside = 0 /\ Top.next > Len(Loop(Top))
    /\ frames' = Front(frames) /\ unheard' = unheard \ Top.known
    /\ UNCHANGED <<components, handlers, wants, bound, launched, eid, regs, adds>>

Next ==
    \/ \E s \in Sinks : launch(s)
    \/ \E n \in Names : register(n)
    \/ listen \/ removeListener
    \/ InvokeSink \/ InvokeOther \/ HandlerReturns \/ HandlerRaises \/ LoopEnds

Spec == Init /\ [][Next]_vars

-----------------------------------------------------------------------------
\* A raiseEvent that goes to its end has called every handler that was there when
\* it began, whatever the handlers added, removed or raised meanwhile (raiseEvent,
\* revent.py:275-299): the list is never shortened under the loop.
NoneSkipped ==
    [][(frames # <<>> /\ Top.inside = 0 /\ Len(frames') < Len(frames))
         => Top.start \subseteq ToSet(Top.called)]_vars

\* No sink listens to a component twice, although its handler can be called again
\* in one event or inside another (listenToDependencies, core.py:328-337).
BoundOnce == \A s \in Sinks : IsInjective(bound[s])

\* Between events, every sink listens to all it wants as soon as all of it is
\* registered, in whatever order and depth, unless the event of one of those was
\* stopped or failed in a handler and none has gone to its end since.
ReadyWhenThere ==
    frames = <<>> =>
      \A s \in launched : Wants[s] \subseteq components \ unheard => ToSet(bound[s]) = Wants[s]

\* A sink ends up listening to each component it depends on, once.
BoundWhenThere == BoundOnce /\ ReadyWhenThere

\* "Create a copy so that it can be modified freely during event processing": one
\* event calls no handler twice.
CopyTaken == \A i \in DOMAIN frames : IsInjective(frames[i].called)
=============================================================================
