-------------------------------- MODULE Kyc --------------------------------
(***************************************************************************)
(* kyc-service: customers submit files, officers approve or reject them,   *)
(* every decision is an audit entry and an event.  A decision reads the    *)
(* file, updates it and publishes, with an await between each.             *)
(***************************************************************************)
EXTENDS Naturals, Sequences, FiniteSets

CONSTANTS
    Files,     \* KycRecord ids
    NoFile,
    Clerks,    \* handlers of concurrent HTTP requests
    Settings   \* the environments to consider, see Setting

FaultKinds ==
    { "overlap",       \* requests about one file are served at the same time
      "dies",          \* a handler ends at an await
      "broker drops" } \* the AMQP channel breaks, or cannot be opened

\* An environment: faults, and how many requests are made.
Setting == [faults : SUBSET FaultKinds, requests : Nat]

KycAssumption == NoFile \notin Files /\ Settings \subseteq Setting

VARIABLES
    setting,   \* the environment of this behaviour; never changes
    file,      \* file -> its status, NONE before it is submitted
    history,   \* file -> its audit entries, in order
    desk,      \* clerk -> the request it serves, and the next await
    channel,   \* the publisher's cached channel: none, open or broken
    events,    \* file -> what was published about it, in order
    notices,   \* files whose client was told of a rejection
    served     \* requests so far

vars == <<setting, file, history, desk, channel, events, notices, served>>

Free == [file |-> NoFile, op |-> "none", next |-> "idle"]
Fault(kind) == kind \in setting.faults

Idle ==
    /\ file = [f \in Files |-> "NONE"]
    /\ history = [f \in Files |-> << >>] /\ events = [f \in Files |-> << >>]
    /\ desk = [c \in Clerks |-> Free]
    /\ channel = "none" /\ notices = {} /\ served = 0

Init == setting \in Settings /\ Idle

Goto(c, next) == desk' = [desk EXCEPT ![c].next = next]
End(c) == desk' = [desk EXCEPT ![c] = Free]

StatusAfter == [SUBMIT |-> "PENDING", APPROVE |-> "APPROVED", REJECT |-> "REJECTED"]

\* A request comes in; ids are made up by submit and come from the queue otherwise.
Receive(c, f, op) ==
    /\ desk[c] = Free /\ served < setting.requests
    /\ (op = "SUBMIT") <=> (file[f] = "NONE")
    /\ \A d \in Clerks : desk[d].file = f => Fault("overlap") /\ op # "SUBMIT"
    /\ served' = served + 1
    /\ desk' = [desk EXCEPT ![c] =
         [file |-> f, op |-> op, next |-> IF op = "SUBMIT" THEN "write" ELSE "find"]]
    /\ UNCHANGED <<setting, file, history, channel, events, notices>>

\* Mutants of getPending and of NextAwait: the status is not looked at; the event
\* goes out before the update.
getAny(f) == file[f] # "NONE"
getPending(f) == file[f] = "PENDING"

PublishFirst == [find |-> "publish", publish |-> "write", write |-> "end"]
NextAwait == [find |-> "write", write |-> "publish", publish |-> "end"]

Notifies(op) == op = "REJECT"

Onwards(c, step) ==
    IF NextAwait[step] # "end" THEN Goto(c, NextAwait[step])
    ELSE IF Notifies(desk[c].op) THEN Goto(c, "notify") ELSE End(c)

Find(c) ==
    /\ desk[c].next = "find"
    /\ IF getPending(desk[c].file) THEN Onwards(c, "find") ELSE End(c)
    /\ UNCHANGED <<setting, file, history, channel, events, notices, served>>

\* One statement writes the status, whatever it is by now, and the audit entry.
Write(c) ==
    LET d == desk[c]
    IN  /\ d.next = "write"
        /\ file' = [file EXCEPT ![d.file] = StatusAfter[d.op]]
        /\ history' = [history EXCEPT ![d.file] = Append(@, d.op)]
        /\ Onwards(c, "write")
        /\ UNCHANGED <<setting, channel, events, notices, served>>

\* getChannel answers the cached channel, broken or not, and connects without one;
\* what goes wrong is logged and the event is gone.
Publishing(c, Sent, Lost) ==
    \/ channel \in {"none", "open"} /\ channel' = "open" /\ Sent
    \/ channel = "none" /\ Fault("broker drops") /\ UNCHANGED channel /\ Lost
    \/ channel = "broken" /\ UNCHANGED channel /\ Lost

Publish(c) ==
    LET d == desk[c]
    IN  /\ d.next = "publish"
        /\ Publishing(c, events' = [events EXCEPT ![d.file] = Append(@, d.op)], UNCHANGED events)
        /\ Onwards(c, "publish")
        /\ UNCHANGED <<setting, file, history, notices, served>>

publishNotification(c) ==
    /\ desk[c].next = "notify"
    /\ Publishing(c, notices' = notices \cup {desk[c].file}, UNCHANGED notices)
    /\ End(c)
    /\ UNCHANGED <<setting, file, history, events, served>>

ChannelBreaks ==
    /\ Fault("broker drops") /\ channel = "open"
    /\ channel' = "broken"
    /\ UNCHANGED <<setting, file, history, desk, events, notices, served>>

\* kyc-service starts anew.
Restart ==
    /\ Fault("dies")
    /\ channel = "broken" \/ \E c \in Clerks : desk[c] # Free
    /\ desk' = [c \in Clerks |-> Free]
    /\ channel' = "none"
    /\ UNCHANGED <<setting, file, history, events, notices, served>>

Quiet ==
    /\ served = setting.requests /\ \A c \in Clerks : desk[c] = Free
    /\ UNCHANGED vars

Next ==
    \/ \E c \in Clerks :
         \/ \E f \in Files, op \in DOMAIN StatusAfter : Receive(c, f, op)
         \/ Find(c) \/ Write(c) \/ Publish(c) \/ publishNotification(c)
    \/ ChannelBreaks \/ Restart
    \/ Quiet

Spec == Init /\ [][Next]_vars

(***************************************************************************)
(* Properties.                                                             *)
(***************************************************************************)
\* The shape of files, audit entries and handlers.
TypeOK ==
    /\ file \in [Files -> {"NONE", "PENDING", "APPROVED", "REJECTED"}]
    /\ history \in [Files -> Seq(DOMAIN StatusAfter)]
    /\ events \in [Files -> Seq(DOMAIN StatusAfter)]
    /\ \A c \in Clerks : desk[c].next \in {"idle", "find", "write", "publish", "notify"}
    /\ channel \in {"none", "open", "broken"} /\ notices \subseteq Files

Count(s, op) == Cardinality({k \in DOMAIN s : s[k] = op})

\* A file is decided once as long as its decisions do not overlap, however its
\* handlers die.  Two officers at the same moment both find it PENDING.
DecidedOnce ==
    ~Fault("overlap") =>
      \A f \in Files : Count(history[f], "APPROVE") + Count(history[f], "REJECT") <= 1

Said(f, op) == Count(events[f], op)
Written(f, op) == Count(history[f], op)

\* No event without its audit entry, whatever overlaps, dies or is lost; and with a
\* broker that stays and handlers that live every decision written is heard, and the
\* client of a rejected file is told.
HeardAsWritten ==
    \A f \in Files :
      /\ \A op \in DOMAIN StatusAfter : Said(f, op) <= Written(f, op)
      /\ \/ {"dies", "broker drops"} \cap setting.faults # {}
         \/ \E c \in Clerks : desk[c].file = f
         \/ /\ \A op \in DOMAIN StatusAfter : Said(f, op) = Written(f, op)
            /\ Written(f, "REJECT") > 0 => f \in notices
=============================================================================
