----------------------------- MODULE Preemption -----------------------------
(***************************************************************************)
(* The preemption detectors of pkg/preemption for one machine: a goroutine *)
(* (Watch) that puts events into a channel with room for one.  The one for *)
(* Azure asks the metadata service for scheduled events at every tick,     *)
(* puts each event of the answer into the channel unless it is full, and   *)
(* acknowledges it, which allows Azure to start; the one for SIGUSR1 turns *)
(* the first signal into an event and ends.                                *)
(*                                                                         *)
(* The metadata service is external.  Azure takes the machine away when    *)
(* the event is acknowledged, or when its time (NotBefore) has come.  An   *)
(* event that is acknowledged is not listed again.                         *)
(***************************************************************************)
EXTENDS Faults

VARIABLES
    notice,   \* how the worker is told that the machine goes: the worker's
              \* preemption.provider decides which of the two there is
    detector, \* where the goroutine of Watch is
    channel,  \* events in the channel
    acked     \* the event has been acknowledged

detectorVars == <<notice, detector, channel, acked>>

-----------------------------------------------------------------------------
\* "sent" is between an event and its acknowledgement.
DetectorStages == {"tick", "sent", "stopped"}

DetectorInit ==
    /\ notice = "none"
    /\ detector = "tick"
    /\ channel = 0
    /\ acked = FALSE

\* The scheduled event, or the signal; one in a behaviour.
Notice ==
    /\ notice = "none"
    /\ notice' \in {"scheduled event", "signal"}
    /\ UNCHANGED <<detector, channel, acked, faults>>

-----------------------------------------------------------------------------
(* AzurePreemptor.checkScheduledEvents.  `stopped` says that the context   *)
(* of the worker is cancelled.  A poll that fails changes nothing.         *)

\* Mutant: the send does not look whether there is room.
PollAndPush(stopped) ==
    /\ detector = "tick"
    /\ ~ stopped
    /\ notice = "scheduled event"
    /\ ~ acked
    /\ channel' = channel + 1
    /\ detector' = "sent"
    /\ UNCHANGED <<notice, acked>>

\* Mutant: the event goes to the acknowledgement when it cannot be sent at once.
PollAndSkip(stopped) ==
    /\ detector = "tick"
    /\ ~ stopped
    /\ notice = "scheduled event"
    /\ ~ acked
    /\ channel' \in {channel, 1}
    /\ detector' = "sent"
    /\ UNCHANGED <<notice, acked>>

\* The event is listed and sent; a full channel has one already, and keeps it.
Poll(stopped) ==
    /\ detector = "tick"
    /\ ~ stopped
    /\ notice = "scheduled event"
    /\ ~ acked
    /\ channel' = 1
    /\ detector' = "sent"
    /\ UNCHANGED <<notice, acked>>

\* An acknowledgement that is lost is logged; the next poll finds the event
\* again, and it is sent again.
Acknowledge ==
    /\ detector = "sent"
    /\ acked' \in {acked, TRUE}
    /\ detector' = "tick"
    /\ UNCHANGED <<notice, channel>>

-----------------------------------------------------------------------------
\* Mutant: the signal ends the detector without an event.
SignalSwallowed ==
    /\ detector = "tick"
    /\ notice = "signal"
    /\ detector' = "stopped"
    /\ UNCHANGED <<notice, channel, acked>>

\* SIGUSR1Preemptor.Watch: the signal, the event, and the end.
Signalled ==
    /\ detector = "tick"
    /\ notice = "signal"
    /\ channel' = channel + 1
    /\ detector' = "stopped"
    /\ UNCHANGED <<notice, acked>>

\* The context is cancelled.
DetectorStops(stopped) ==
    /\ stopped
    /\ detector = "tick"
    /\ detector' = "stopped"
    /\ UNCHANGED <<notice, channel, acked>>

DetectorStep(stopped) ==
    /\ \/ Poll(stopped)
       \/ Acknowledge
       \/ Signalled
       \/ DetectorStops(stopped)
    /\ UNCHANGED faults

\* watchPreemption takes an event out of the channel.
ReceiveEvent ==
    /\ channel > 0
    /\ channel' = channel - 1
    /\ UNCHANGED <<notice, detector, acked>>

(* Type correctness of the detector, whose channel has room for one event. *)
PreemptionTypeOK ==
    /\ notice \in {"none", "scheduled event", "signal"}
    /\ detector \in DetectorStages
    /\ channel \in 0 .. 1
    /\ acked \in BOOLEAN
=============================================================================
