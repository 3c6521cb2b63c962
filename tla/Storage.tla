------------------------------ MODULE Storage ------------------------------
(***************************************************************************)
(* What a device says of the storage it keeps things on                     *)
(* (core/src/durability.rs, core/src/wear.rs, cli/src/storage.rs): how far  *)
(* behind the off-device copy is, what the flash estimates of itself, and   *)
(* which of the questions about it have no good answer.                     *)
(*                                                                         *)
(* Time is in seconds.  A cell that does not know the day has today = {}.   *)
(***************************************************************************)
EXTENDS Machine

MeasurementStandsFor == 5 * 60
DrillStandsFor       == 30 * 24 * 60 * 60
LagTarget            == 60

Behind(lag, at)   == [is |-> "behind", lag |-> lag, at |-> at]
RecoveryPoints(lags, times) ==
    {Behind(lag, at) : lag \in lags, at \in times}
        \cup {[is |-> w] : w \in {"never replicated", "unreachable", "no replica"}}

(* RecoveryPoint::is_live: neither old nor stamped ahead of the clock. *)
IsLive(point, now) ==
    /\ point.is = "behind"
    /\ point.at <= now
    /\ now - point.at < MeasurementStandsFor

NeedsAttention(point, target, now) ==
    \/ ~IsLive(point, now)
    \/ point.lag >= target

(* RecoveryPoint::describe, by what it tells. *)
TellRecovery(point, now) ==
    IF point.is # "behind" THEN point.is
    ELSE IF IsLive(point, now) THEN "behind by a live figure"
    ELSE IF point.at <= now THEN "behind when last measured" ELSE "stamped ahead of the clock"

LabVerification    == [method : STRING, fixture : STRING, date : STRING]
AssumedUntrusted   == [is |-> "assumed untrusted"]
LabVerified(v)     == [is |-> "lab verified", by |-> v]
TellDurability(c)  == IF c.is = "lab verified" THEN "one part was tested" ELSE "not trusted"

Restored(at) == [is |-> "restored", at |-> at]
BackupStates(times) ==
    {Restored(at) : at \in times}
        \cup {[is |-> w] : w \in {"never restored", "restore failed", "not configured"}}

(* BackupState::is_proven: a drill no older than the interval it stands for.*)
IsProven(backup, today) ==
    /\ backup.is = "restored"
    /\ \E now \in today : backup.at <= now /\ now - backup.at <= DrillStandsFor

(* BackupState::describe *)
TellBackup(backup, today) ==
    IF backup.is # "restored" THEN backup.is
    ELSE IF IsProven(backup, today) THEN "restored and current"
    ELSE IF today = {} THEN "restored, day unknown"
    ELSE IF \E now \in today : backup.at <= now THEN "drill due" ELSE "stamped ahead of the clock"

GracefulShutdowns == {"verified", "never observed", "failed"}

-----------------------------------------------------------------------------
(* The flash's own estimate. *)

LifeTimeNodes == <<"/sys/block/mmcblk0/device/life_time",
                   "/sys/block/sda/device/health_descriptor/life_time_estimation_a",
                   "/sys/class/block/mmcblk0/device/life_time",
                   "/sys/devices/platform/soc/ufs/health_descriptor/life_time_estimation_a">>

DeclinesToSay == 0
PastRatedLife == 11

WearReadable(used) == [is |-> "readable", used |-> used]
WearAbsent         == [is |-> "absent"]
WearUnreliable     == [is |-> "unreliable"]
WearIndicators     == {WearReadable(u) : u \in {10 * s : s \in 1..10}}
                        \cup {WearAbsent, WearUnreliable}

(* step_of: two hexadecimal digits, with or without 0x.  A node is the      *)
(* sequence of its fields; a field that is not a step is not in 0..255.     *)
IsStep(field) == field \in 0..255

(* wear::parse: the worst field that says something; a step nobody defined, *)
(* or a node where every field declines, is no estimate.                    *)
ParseWear(fields) ==
    LET said  == {fields[i] : i \in DOMAIN fields} \ {DeclinesToSay}
        worst == Max(said)
    IN  IF (\E i \in DOMAIN fields : ~IsStep(fields[i])) \/ said = {} THEN WearUnreliable
        ELSE IF worst > PastRatedLife THEN WearUnreliable
        ELSE WearReadable(IF worst = PastRatedLife THEN 100 ELSE 10 * worst)

(* wear::observe: the first node that reads. *)
ObserveWear(m) ==
    LET reading == {i \in DOMAIN LifeTimeNodes : FileAt(m, LifeTimeNodes[i]).is = "fields"}
    IN  IF reading = {} THEN WearAbsent
        ELSE ParseWear(FileAt(m, LifeTimeNodes[Min(reading)]).fields)

-----------------------------------------------------------------------------
(* The posture. *)

Postures(lags, times) ==
    [recovery : RecoveryPoints(lags, times), durability : {AssumedUntrusted},
     wear : WearIndicators, shutdown : GracefulShutdowns, backup : BackupStates(times)]

Now(since, today) == [since |-> since, today |-> today]

Unconfigured == [recovery |-> [is |-> "no replica"], durability |-> AssumedUntrusted,
                 wear |-> WearAbsent, shutdown |-> "never observed",
                 backup |-> [is |-> "not configured"]]

(* Posture::concerns, in the order they are told. *)
Concerns(p, target, now) ==
    (IF NeedsAttention(p.recovery, target, now.since)
        THEN <<TellRecovery(p.recovery, now.since)>> ELSE << >>)
    \o (IF IsProven(p.backup, now.today) THEN << >> ELSE <<TellBackup(p.backup, now.today)>>)
    \o (IF p.shutdown = "verified" THEN << >> ELSE <<p.shutdown>>)
    \o (IF p.wear = WearUnreliable THEN <<"wear unreliable">> ELSE << >>)

(* storage::observed_with: what this device has of its own accord, beside   *)
(* what the replica's receipts claim.                                       *)
ObservedPosture(m, claimed) ==
    [recovery |-> claimed.recovery, durability |-> AssumedUntrusted, wear |-> ObserveWear(m),
     shutdown |-> "never observed", backup |-> claimed.backup]

(* storage::describe_with *)
StorageSection(m, now, claimed, quoted) ==
    LET p == ObservedPosture(m, claimed)
    IN  [quotes |-> quoted, flash |-> TellDurability(p.durability), wear |-> p.wear,
         concerns |-> Concerns(p, LagTarget, now)]
=============================================================================
