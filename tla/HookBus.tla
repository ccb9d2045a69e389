------------------------------ MODULE HookBus ------------------------------
(***************************************************************************)
(* The hook bus of a site (core/hook_bus.go): handlers are kept in the     *)
(* order of their priority when they are added, and firing an event calls  *)
(* all of them on shared arguments.                                        *)
(***************************************************************************)
EXTENDS SequencesExt, Integers

(***************************************************************************)
(* Call(who, args, h) is what the handler h does for the request who: a    *)
(* record with the arguments it leaves behind in out, and its end: "ok",   *)
(* "refuse" (it returns an error) or "panic".                              *)
(***************************************************************************)
CONSTANT Call(_, _, _)

(***************************************************************************)
(* AddHook: the handler goes before the first one of a higher number, so   *)
(* handlers of one priority keep the order in which they were added.       *)
(* handlers is a sequence of records with at least a priority.             *)
(***************************************************************************)
AddHook(handlers, h) ==
    LET later == {i \in DOMAIN handlers : handlers[i].priority > h.priority}
        at == IF later = {} THEN Len(handlers) + 1
                            ELSE CHOOSE i \in later : \A j \in later : i <= j
    IN  InsertAt(handlers, at, h)

\* The handlers of an event after the site has registered the first i of hs.
RegisteredUpTo(hs) ==
    LET Upto[i \in 0 .. Len(hs)] == IF i = 0 THEN << >> ELSE AddHook(Upto[i - 1], hs[i])
    IN  Upto

Registered(hs) == RegisteredUpTo(hs)[Len(hs)]

\* Slip: the error of the last handler is the one returned.
EndedLast(before, now) == now

\* The first error stays, whatever the later handlers say, but for a panic.
Ended(before, now) == IF now = "panic" \/ before = "ok" THEN now ELSE before

\* What has become of the arguments once the first i handlers are through.  An
\* error does not stop the handlers that follow; a panic does, and it is the
\* error that Fire returns.
FiredUpTo(handlers, who, args) ==
    LET Upto[i \in 0 .. Len(handlers)] ==
          IF i = 0 THEN [out |-> args, end |-> "ok"]
          ELSE LET before == Upto[i - 1]
                   now == Call(who, before.out, handlers[i])
               IN  IF before.end = "panic" THEN before
                   ELSE [out |-> now.out, end |-> Ended(before.end, now.end)]
    IN  Upto

Fire(handlers, who, args) == FiredUpTo(handlers, who, args)[Len(handlers)]
=============================================================================
