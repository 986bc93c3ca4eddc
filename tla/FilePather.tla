----------------------------- MODULE FilePather -----------------------------
(***************************************************************************)
(* The uploader with the folder it gives each work unit.  sendWorkToNext   *)
(* asks the file path provider for a file name and for a prefix,           *)
(* date=<date>/hour=<hour>/<random>/, before it sends the unit to next.    *)
(* Prefix reads the wall clock twice, for the date and then for the hour,  *)
(* and any amount of time may pass before, between and after the readings. *)
(*                                                                         *)
(* Time counts hours from a midnight, and does not go backwards (no change *)
(* of the clock or of its zone).  The file name and the random part of the *)
(* prefix are UUIDs, which nothing here tells apart: path_prefix_count     *)
(* decides how many random parts there are, not when the clock is read.    *)
(***************************************************************************)
EXTENDS Uploader

CONSTANTS HoursPerDay,   \* hours between two midnights: 24
          MaxHours       \* bound on the time that passes

ASSUME HoursAssumption == HoursPerDay \in Nat \ {0} /\ MaxHours \in Nat

VARIABLES clock,     \* time.Now(), in hours
          moments    \* when the payload in hand was received, when Prefix
                     \* read the date, and when it read the hour, so far

labelledVars == <<vars, clock, moments>>

LabelledInit ==
    /\ Init
    /\ clock = 0
    /\ moments = <<>>

\* Mutation (see Inbox): the hour is read before the date.
FolderHourFirst(dateAt, hourAt) ==
    (hourAt \div HoursPerDay) * HoursPerDay + (dateAt % HoursPerDay)

\* The hour that the folder of the date at dateAt and the hour at hourAt
\* stands for.
Folder(dateAt, hourAt) ==
    (dateAt \div HoursPerDay) * HoursPerDay + (hourAt % HoursPerDay)

-----------------------------------------------------------------------------
\* An action of Uploader: a payload that enters sendWorkToNext is yet to be
\* labelled, and one leaves it only when Prefix has returned.
Labelled(A) ==
    /\ A
    /\ \/ hand' = hand /\ UNCHANGED moments
       \/ hand' # hand /\ hand' # <<>> /\ moments' = <<clock>>
       \/ hand' # hand /\ hand' = <<>> /\ Len(moments) = 3 /\ moments' = <<>>
    /\ UNCHANGED clock

\* dtProvider.Date().
ReadDate ==
    /\ Len(moments) = 1
    /\ moments' = Append(moments, clock)
    /\ UNCHANGED <<vars, clock>>

\* dtProvider.Hour(); the prefix is complete.
ReadHour ==
    /\ Len(moments) = 2
    /\ moments' = Append(moments, clock)
    /\ UNCHANGED <<vars, clock>>

Tick ==
    /\ clock < MaxHours
    /\ clock' = clock + 1
    /\ UNCHANGED <<vars, moments>>

LabelledNext == Labelled(Next) \/ ReadDate \/ ReadHour \/ Tick

\* As in Uploader; reading the clock blocks nobody.
LabelledFairness ==
    /\ \A c \in Callers : WF_labelledVars(Labelled(FinishEnqueue(c)))
    /\ WF_labelledVars(Labelled(RunStep))
    /\ SF_labelledVars(Labelled(BeginShutdown))
    /\ WF_labelledVars(Labelled(TakeWork))
    /\ WF_labelledVars(ReadDate \/ ReadHour)

LabelledSpec == LabelledInit /\ [][LabelledNext]_labelledVars /\ LabelledFairness

-----------------------------------------------------------------------------
\* The folder of a work unit is never of a time to come, and never as much as
\* a day older than the unit.  If the date did not change while sendWorkToNext
\* was at work, it is of an hour at which the uploader had the unit; otherwise
\* it may be of an hour before that: at midnight, of the start of the old day.
FoldersAreOfTheirTime ==
    Len(moments) = 3 =>
        LET received == moments[1]
            folder == Folder(moments[2], moments[3])
        IN  /\ folder <= clock
            /\ folder > received - HoursPerDay
            /\ received \div HoursPerDay = clock \div HoursPerDay
                   => folder \in received..clock

-----------------------------------------------------------------------------
\* The moments are in order, and none is to come: the inductive invariant
\* behind it (module UploaderProofs).
MomentsInOrder ==
    /\ clock \in Nat
    /\ moments \in Seq(Nat)
    /\ \A i \in 1..Len(moments) : moments[i] <= clock
    /\ \A i, j \in 1..Len(moments) : i <= j => moments[i] <= moments[j]
=============================================================================
