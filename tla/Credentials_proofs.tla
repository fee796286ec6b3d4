-------------------------- MODULE Credentials_proofs --------------------------
(***************************************************************************)
(* Safety of what lets users in: the login codes, password resets, the     *)
(* second factor and the accounts themselves, and of the monitor of failed *)
(* logins; for every set of workers and every limit.                       *)
(*                                                                         *)
(* The bounds have one argument.  A handler decides on what is stored and  *)
(* stores its own part later, so what is stored says too little: together  *)
(* with the handlers that have decided and not stored yet it stays within  *)
(* the limit and the number of workers.                                    *)
(***************************************************************************)
EXTENDS LoginCodes, PasswordReset, TwoFactor, Accounts, SecurityWatch, Workers_proofs,
  SequenceTheorems

-----------------------------------------------------------------------------
(* Sequences of rows *)

LEMMA SameInterval ==
  ASSUME NEW m \in Nat, NEW n \in Nat, 1..m = 1..n
  PROVE  m = n
<1>1. m # 0 => m \in 1..n
  OBVIOUS
<1>2. n # 0 => n \in 1..m
  OBVIOUS
<1>3. QED BY <1>1, <1>2

\* Rows with the same ids as before are a table of the same length.
LEMMA SameIds ==
  ASSUME NEW S, NEW T, NEW s \in Seq(S), NEW f, f \in [DOMAIN s -> T]
  PROVE  f \in Seq(T) /\ Len(f) = Len(s)
<1>1. Len(s) \in Nat /\ DOMAIN s = 1..Len(s)
  BY LenProperties
<1>2. f \in Seq(T)
  BY <1>1, SeqDef
<1>3. Len(f) \in Nat /\ DOMAIN f = 1..Len(f)
  BY <1>2, LenProperties
<1>4. QED BY <1>1, <1>2, <1>3

-----------------------------------------------------------------------------
(* Two-factor login: type correctness *)

FactorTyped ==
  /\ workers \in WorkerSets /\ TwoFactorTypeOK
  /\ opened \in Seq([BackupCodes -> Nat]) /\ devices \in Seq(DeviceRow)

LEMMA FactorBounds ==
  /\ MaxSecrets \in Nat /\ MaxBatches \in Nat /\ MaxDevices \in Nat
  /\ TOTP_MAX_TRUSTED_DEVICES_PER_USER \in Nat /\ TOTP_MAX_TRUSTED_DEVICES_PER_USER >= 1
BY TwoFactorAssumption

LEMMA FactorGotoType ==
  ASSUME TwoFactorTypeOK, NEW q, NEW r \in FactorRequest, FactorGoto(q, r)
  PROVE  factorReq' \in [Worker -> FactorRequest]
BY DEF TwoFactorTypeOK, FactorGoto

LEMMA FactorIdleType == FactorIdle \in FactorRequest
BY DEF FactorIdle, FactorRequest

\* The devices after a step that sets columns of some of them.
LEMMA DevicesTyped ==
  ASSUME FactorTyped, devices' \in [DOMAIN devices -> DeviceRow]
  PROVE  /\ devices' \in Seq(DeviceRow)
         /\ DOMAIN devices' \in {1..n : n \in 0..MaxDevices}
         /\ \A d \in DOMAIN devices' : devices'[d] \in DeviceRow
BY SameIds DEF FactorTyped, TwoFactorTypeOK

LEMMA BatchTyped ==
  ASSUME FactorTyped, NewBatch
  PROVE  /\ batch' \in 0..MaxBatches /\ unused' \subseteq BackupCodes /\ batchKept' \in BOOLEAN
         /\ DOMAIN opened' = 1..batch' /\ opened' \in Seq([BackupCodes -> Nat])
         /\ Len(opened) = batch
         /\ \A b \in 1..batch : opened'[b] = opened[b]
         /\ opened'[batch'] = [c \in BackupCodes |-> 0]
<1>1. Len(opened) = batch /\ batch \in Nat
  BY TwoFactorAssumption, LenProperties DEF FactorTyped, TwoFactorTypeOK
<1>2. [c \in BackupCodes |-> 0] \in [BackupCodes -> Nat]
  OBVIOUS
<1>3. opened' \in Seq([BackupCodes -> Nat]) /\ Len(opened') = batch + 1
      /\ opened'[batch + 1] = [c \in BackupCodes |-> 0]
      /\ \A b \in 1..batch : opened'[b] = opened[b]
  BY <1>1, <1>2 DEF NewBatch, FactorTyped
<1>4. DOMAIN opened' = 1..batch + 1
  BY <1>3, LenProperties
<1>5. QED BY <1>1, <1>3, <1>4, TwoFactorAssumption DEF NewBatch, FactorTyped, TwoFactorTypeOK

\* Every step of a handler and of time keeps every variable in its type.
LEMMA FactorStepTyped ==
  ASSUME FactorTyped, NEW q \in workers, FactorStep(q), UNCHANGED workers
  PROVE  FactorTyped'
<1> DEFINE r == factorReq[q]
<1>0. /\ q \in Worker /\ r \in FactorRequest
      /\ TwoFactorTypeOK /\ secret.id \in Nat /\ batch \in Nat
  BY WorkersCounted, FactorBounds DEF FactorTyped, TwoFactorTypeOK
<1>1. ASSUME NEW s \in FactorRequest, FactorGoto(q, s),
             UNCHANGED <<totpEnabled, secret, batch, unused, batchKept, opened, devices, lastSecret>>
      PROVE  FactorTyped'
  <2>1. factorReq' \in [Worker -> FactorRequest]
    BY <1>0, <1>1, FactorGotoType
  <2>2. QED BY <1>1, <2>1 DEF FactorTyped, TwoFactorTypeOK, DeviceRow
<1>2. ASSUME FactorEnds(q) PROVE factorReq' \in [Worker -> FactorRequest]
  BY <1>0, <1>2, FactorGotoType, FactorIdleType DEF FactorEnds
<1>3. CASE Setup2fa(q) \/ VerifySetup(q) \/ Disable2fa(q) \/ Regenerate(q) \/ LoginWithTotp(q)
  <2>1. \A pc \in {"setup", "disable", "regenerate", "trust"} :
          [FactorIdle EXCEPT !.pc = pc] \in FactorRequest
    BY DEF FactorIdle, FactorRequest
  <2>2. [FactorIdle EXCEPT !.pc = "verify", !.row = secret.id] \in FactorRequest
    BY <1>0 DEF FactorIdle, FactorRequest
  <2>3. QED
    BY <1>1, <1>3, <2>1, <2>2 DEF Setup2fa, VerifySetup, Disable2fa, Regenerate, LoginWithTotp
<1>4. ASSUME NEW code \in BackupCodes, LoginWithBackup(q, code) PROVE FactorTyped'
  <2>1. [FactorIdle EXCEPT !.pc = "consume", !.row = batch, !.code = code] \in FactorRequest
    BY <1>0 DEF FactorIdle, FactorRequest
  <2>2. QED BY <1>1, <1>4, <2>1 DEF LoginWithBackup
<1>5. CASE CountDevices(q) \/ FactorDies(q)
  <2>1. FactorIdle \in FactorRequest /\ [FactorIdle EXCEPT !.pc = "insert"] \in FactorRequest
    BY DEF FactorIdle, FactorRequest
  <2>2. CASE CountDevices(q)
    BY <1>1, <2>1, <2>2 DEF CountDevices
  <2>3. CASE FactorDies(q)
    BY <1>1, <2>1, <2>3 DEF FactorDies, FactorEnds
  <2>4. QED BY <1>5, <2>2, <2>3
<1>15. CASE SecretCreated(q)
  <2>1. lastSecret' \in 0..MaxSecrets
    BY <1>0, <1>15, FactorBounds DEF SecretCreated, TwoFactorTypeOK
  <2>2. secret' \in [id : Nat, is_verified : BOOLEAN]
    BY <1>0, <1>15, FactorBounds DEF SecretCreated, TwoFactorTypeOK
  <2>3. factorReq' \in [Worker -> FactorRequest]
    BY <1>2, <1>15 DEF SecretCreated
  <2>4. QED BY <1>0, <1>15, <2>1, <2>2, <2>3 DEF SecretCreated, FactorTyped, TwoFactorTypeOK, DeviceRow
<1>6. CASE SetupVerified(q)
  <2>1. secret' \in [id : Nat, is_verified : BOOLEAN]
    BY <1>0, <1>6 DEF SetupVerified, TwoFactorTypeOK
  <2>2. QED BY <1>0, <1>2, <1>6, <2>1, BatchTyped DEF SetupVerified, FactorTyped, TwoFactorTypeOK, DeviceRow
<1>7. CASE Disabled(q)
  BY <1>0, <1>2, <1>7 DEF Disabled, FactorTyped, TwoFactorTypeOK, NoSecret, DeviceRow
<1>8. CASE Regenerated(q)
  BY <1>0, <1>2, <1>8, BatchTyped DEF Regenerated, FactorTyped, TwoFactorTypeOK, DeviceRow
<1>9. CASE BackupConsumed(q)
  <2>1. factorReq' \in [Worker -> FactorRequest]
    <3>1. CASE FactorEnds(q)
      BY <1>2, <3>1
    <3>2. CASE FactorGoto(q, [FactorIdle EXCEPT !.pc = "trust"])
      <4>1. [FactorIdle EXCEPT !.pc = "trust"] \in FactorRequest
        BY DEF FactorIdle, FactorRequest
      <4>2. QED BY <1>0, <3>2, <4>1, FactorGotoType
    <3>3. QED BY <1>9, <3>1, <3>2 DEF BackupConsumed
  <2>2. unused' \subseteq BackupCodes
    BY <1>0, <1>9 DEF BackupConsumed, Unspent, TwoFactorTypeOK
  <2>3. opened \in [1..batch -> [BackupCodes -> Nat]]
    BY <1>0, LenProperties DEF FactorTyped, TwoFactorTypeOK
  <2>4. opened' \in [1..batch -> [BackupCodes -> Nat]]
    <3>1. CASE opened' = opened
      BY <2>3, <3>1
    <3>2. CASE opened' = [opened EXCEPT ![r.row][r.code] = @ + 1]
      <4>1. ASSUME NEW b \in 1..batch PROVE opened'[b] \in [BackupCodes -> Nat]
        <5>1. opened[b] \in [BackupCodes -> Nat]
          BY <2>3
        <5>2. opened'[b] = IF b = r.row THEN [opened[b] EXCEPT ![r.code] = @ + 1] ELSE opened[b]
          BY <2>3, <3>2
        <5>3. \A c \in BackupCodes : opened[b][c] + 1 \in Nat
          BY <5>1
        <5>4. QED BY <5>1, <5>2, <5>3
      <4>2. QED BY <2>3, <3>2, <4>1
    <3>3. QED BY <1>9, <3>1, <3>2 DEF BackupConsumed
  <2>5. opened' \in Seq([BackupCodes -> Nat]) /\ DOMAIN opened' = 1..batch
    BY <1>0, <2>4, SameIds DEF FactorTyped, TwoFactorTypeOK
  <2>6. QED BY <1>0, <1>9, <2>1, <2>2, <2>5 DEF BackupConsumed, FactorTyped, TwoFactorTypeOK
<1>10. CASE DeviceTrusted(q)
  <2>1. [is_active |-> TRUE, expired |-> FALSE, kept |-> TRUE] \in DeviceRow
    BY DEF DeviceRow
  <2>2. devices' \in Seq(DeviceRow) /\ Len(devices') = Len(devices) + 1
    BY <1>10, <2>1 DEF DeviceTrusted, FactorTyped
  <2>5. Len(devices') \in 0..MaxDevices
    BY <1>10, <2>2, FactorBounds, LenProperties DEF DeviceTrusted, FactorTyped
  <2>3. DOMAIN devices' = 1..Len(devices') /\ \A d \in DOMAIN devices' : devices'[d] \in DeviceRow
    BY <2>2, LenProperties, ElementOfSeq
  <2>4. QED BY <1>0, <1>2, <1>10, <2>2, <2>3, <2>5 DEF DeviceTrusted, FactorTyped, TwoFactorTypeOK
<1>11. ASSUME NEW D, SetDevices(q, D, Revoked(D)) \/ SetDevices(q, D, Deleted(D))
       PROVE  FactorTyped'
  <2>1. \A d \in DOMAIN devices :
          /\ [devices[d] EXCEPT !.is_active = @ /\ d \notin D] \in DeviceRow
          /\ [devices[d] EXCEPT !.kept = @ /\ d \notin D] \in DeviceRow
    BY <1>0 DEF TwoFactorTypeOK, DeviceRow
  <2>2. devices' \in [DOMAIN devices -> DeviceRow]
    BY <1>11, <2>1 DEF SetDevices, Revoked, Deleted
  <2>3. QED BY <1>0, <1>11, <2>2, DevicesTyped DEF SetDevices, FactorTyped, TwoFactorTypeOK
<1>12. CASE RevokeAllDevices(q) \/ CleanupDevices(q)
  BY <1>11, <1>12 DEF RevokeAllDevices, CleanupDevices
<1>13. ASSUME NEW d \in DOMAIN devices, RevokeDevice(q, d) PROVE FactorTyped'
  BY <1>11, <1>13 DEF RevokeDevice
<1>14. ASSUME NEW D \in SUBSET DOMAIN devices, DeleteOldDevices(q, D) PROVE FactorTyped'
  BY <1>11, <1>14 DEF DeleteOldDevices
<1>16. QED
  BY <1>3, <1>4, <1>5, <1>6, <1>7, <1>8, <1>9, <1>10, <1>12, <1>13, <1>14, <1>15
     DEF FactorStep

LEMMA FactorNextTyped ==
  ASSUME FactorTyped, [TwoFactorNext]_factorVars
  PROVE  FactorTyped'
<1>1. CASE UNCHANGED factorVars
  BY <1>1 DEF factorVars, FactorTyped, TwoFactorTypeOK, DeviceRow
<1>2. ASSUME NEW d \in DOMAIN devices, DeviceExpires(d), UNCHANGED workers PROVE FactorTyped'
  <2>1. devices' \in [DOMAIN devices -> DeviceRow]
    BY <1>2 DEF DeviceExpires, FactorTyped, TwoFactorTypeOK, DeviceRow
  <2>2. QED BY <1>2, <2>1, DevicesTyped DEF DeviceExpires, FactorTyped, TwoFactorTypeOK
<1>3. QED BY <1>1, <1>2, FactorStepTyped DEF TwoFactorNext

LEMMA FactorInitTyped ==
  ASSUME TwoFactorInit
  PROVE  FactorTyped
<1>1. <<>> \in Seq([BackupCodes -> Nat]) /\ <<>> \in Seq(DeviceRow) /\ DOMAIN <<>> = 1..0
  BY EmptySeq
<1>2. DOMAIN devices \in {1..n : n \in 0..MaxDevices} /\ DOMAIN opened = 1..batch
  BY <1>1, FactorBounds DEF TwoFactorInit
<1>3. \A d \in DOMAIN devices : devices[d] \in DeviceRow
  BY <1>1 DEF TwoFactorInit
<1>4. secret \in [id : Nat, is_verified : BOOLEAN] /\ lastSecret \in 0..MaxSecrets
      /\ batch \in 0..MaxBatches
  BY FactorBounds DEF TwoFactorInit, NoSecret
<1>5. QED
  BY <1>1, <1>2, <1>3, <1>4, FactorIdleType
     DEF TwoFactorInit, WorkersInit, FactorTyped, TwoFactorTypeOK

\* The second factor's variables hold values of their types, whatever the
\* numbers of workers, codes and devices: no request is without its rows.
THEOREM FactorTypeCorrect == TwoFactorSpec => []TwoFactorTypeOK
<1>1. TwoFactorInit => FactorTyped
  BY FactorInitTyped
<1>2. FactorTyped /\ [TwoFactorNext]_factorVars => FactorTyped'
  BY FactorNextTyped
<1>3. FactorTyped => TwoFactorTypeOK
  BY DEF FactorTyped
<1>4. QED BY <1>1, <1>2, <1>3, PTL DEF TwoFactorSpec

-----------------------------------------------------------------------------
(* Two-factor login: trusted devices *)

\* Logins that have counted the devices and not stored their own.
Inserting == {q \in workers : factorReq[q].pc = "insert"}
DevicesInv ==
  Cardinality(ActiveDevices) + Cardinality(Inserting)
    < TOTP_MAX_TRUSTED_DEVICES_PER_USER + Cardinality(workers)

LEMMA DevicesCounted ==
  ASSUME FactorTyped
  PROVE  /\ IsFiniteSet(ActiveDevices) /\ Cardinality(ActiveDevices) \in Nat
         /\ IsFiniteSet(Inserting) /\ Cardinality(Inserting) \in Nat
         /\ Cardinality(Inserting) <= Cardinality(workers) /\ Cardinality(workers) \in Nat
<1>1. Len(devices) \in Nat /\ DOMAIN devices = 1..Len(devices)
  BY LenProperties DEF FactorTyped
<1>2. IsFiniteSet(DOMAIN devices)
  BY <1>1, FS_Interval
<1>3. ActiveDevices \subseteq DOMAIN devices
  BY DEF ActiveDevices
<1>4. Inserting \subseteq workers
  BY DEF Inserting
<1>5. QED BY <1>2, <1>3, <1>4, NoMore, SomeWorkers, WorkersCounted DEF FactorTyped

\* Fewer devices, fewer logins about to store one.
LEMMA DevicesFewer ==
  ASSUME FactorTyped, DevicesInv, UNCHANGED workers,
         ActiveDevices' \subseteq ActiveDevices, Inserting' \subseteq Inserting
  PROVE  DevicesInv'
<1>1. Cardinality(ActiveDevices') \in Nat /\ Cardinality(ActiveDevices') <= Cardinality(ActiveDevices)
  BY DevicesCounted, NoMore
<1>2. Cardinality(Inserting') \in Nat /\ Cardinality(Inserting') <= Cardinality(Inserting)
  BY DevicesCounted, NoMore
<1>3. QED BY <1>1, <1>2, DevicesCounted, FactorBounds DEF DevicesInv

\* A handler that goes anywhere but to the insert doesn't add to those there.
LEMMA NotInserting ==
  ASSUME FactorTyped, UNCHANGED workers, NEW q \in workers, NEW s, s.pc # "insert",
         FactorGoto(q, s)
  PROVE  Inserting' \subseteq Inserting /\ q \notin Inserting'
<1>1. factorReq \in [Worker -> FactorRequest] /\ workers \subseteq Worker
  BY WorkersCounted DEF FactorTyped, TwoFactorTypeOK
<1>2. \A p \in workers : factorReq'[p] = IF p = q THEN s ELSE factorReq[p]
  BY <1>1 DEF FactorGoto
<1>3. QED BY <1>2 DEF Inserting

LEMMA SameDevices ==
  ASSUME UNCHANGED devices
  PROVE  ActiveDevices' = ActiveDevices
BY DEF ActiveDevices, Active

\* Columns set in some of the rows, which don't make one active.
LEMMA DevicesFall ==
  ASSUME FactorTyped, DevicesInv, UNCHANGED <<workers, factorReq>>,
         NEW D, devices' = Revoked(D) \/ devices' = Deleted(D)
  PROVE  DevicesInv'
<1>1. \A d \in DOMAIN devices : devices[d] \in DeviceRow
  BY DEF FactorTyped, TwoFactorTypeOK
<1>2. ActiveDevices' \subseteq ActiveDevices
  <2>1. DOMAIN devices' = DOMAIN devices
    BY DEF Revoked, Deleted
  <2>2. \A d \in DOMAIN devices : Active(d)' => Active(d)
    BY <1>1 DEF Revoked, Deleted, Active, DeviceRow
  <2>3. QED BY <2>1, <2>2 DEF ActiveDevices
<1>3. Inserting' = Inserting
  BY DEF Inserting
<1>4. QED BY <1>2, <1>3, DevicesFewer

LEMMA DevicesStep ==
  ASSUME FactorTyped, DevicesInv, NEW q \in workers, FactorStep(q), UNCHANGED workers
  PROVE  DevicesInv'
<1>0. FactorIdle.pc = "idle"
      /\ \A pc \in {"setup", "disable", "regenerate", "trust", "verify", "consume"} : \A row, code :
           /\ [FactorIdle EXCEPT !.pc = pc].pc = pc
           /\ [FactorIdle EXCEPT !.pc = pc, !.row = row].pc = pc
           /\ [FactorIdle EXCEPT !.pc = pc, !.row = row, !.code = code].pc = pc
  BY DEF FactorIdle
<1>1. ASSUME NEW s, s.pc # "insert", FactorGoto(q, s), UNCHANGED devices PROVE DevicesInv'
  BY <1>1, NotInserting, SameDevices, DevicesFewer
<1>2. CASE Setup2fa(q) \/ VerifySetup(q) \/ Disable2fa(q) \/ Regenerate(q) \/ LoginWithTotp(q)
           \/ \E code \in BackupCodes : LoginWithBackup(q, code)
  BY <1>0, <1>1, <1>2
     DEF Setup2fa, VerifySetup, Disable2fa, Regenerate, LoginWithTotp, LoginWithBackup
<1>3. CASE SecretCreated(q) \/ SetupVerified(q) \/ Disabled(q) \/ Regenerated(q) \/ FactorDies(q)
           \/ BackupConsumed(q)
  BY <1>0, <1>1, <1>3
     DEF SecretCreated, SetupVerified, Disabled, Regenerated, FactorDies, BackupConsumed, FactorEnds
<1>4. CASE CountDevices(q) /\ ~MayTrust
  BY <1>0, <1>1, <1>4 DEF CountDevices
\* The count leaves room for one, and no more than all workers are at the insert.
<1>5. CASE CountDevices(q) /\ MayTrust
  <2>1. Inserting' \subseteq workers
    BY DEF Inserting
  <2>2. Cardinality(Inserting') \in Nat /\ Cardinality(Inserting') <= Cardinality(workers)
    BY <2>1, SomeWorkers DEF FactorTyped
  <2>3. ActiveDevices' = ActiveDevices
    BY <1>5, SameDevices DEF CountDevices
  <2>4. QED BY <1>5, <2>2, <2>3, DevicesCounted, FactorBounds DEF MayTrust, DevicesInv
\* One more device, one login less that is about to store its own.
<1>6. CASE DeviceTrusted(q)
  <2>1. Inserting' \subseteq Inserting /\ q \notin Inserting' /\ q \in Inserting
    BY <1>0, <1>6, NotInserting DEF DeviceTrusted, FactorEnds, FactorAt, Inserting
  <2>2. Cardinality(Inserting') \in Nat /\ Cardinality(Inserting') + 1 <= Cardinality(Inserting)
    BY <2>1, DevicesCounted, OneLess
  <2>3. ActiveDevices' \subseteq ActiveDevices \cup {Len(devices) + 1}
    <3>1. devices \in Seq(DeviceRow) /\ [is_active |-> TRUE, expired |-> FALSE, kept |-> TRUE] \in DeviceRow
      BY DEF FactorTyped, DeviceRow
    <3>2. /\ DOMAIN devices = 1..Len(devices) /\ Len(devices) \in Nat
          /\ DOMAIN devices' = 1..Len(devices) + 1
          /\ \A d \in 1..Len(devices) : devices'[d] = devices[d]
      BY <1>6, <3>1, LenProperties DEF DeviceTrusted
    <3>3. QED BY <3>2 DEF ActiveDevices, Active
  <2>4. Cardinality(ActiveDevices') \in Nat
        /\ Cardinality(ActiveDevices') <= Cardinality(ActiveDevices) + 1
    BY <2>3, DevicesCounted, OneMore
  <2>5. QED BY <2>2, <2>4, DevicesCounted, FactorBounds DEF DevicesInv
<1>7. ASSUME NEW D, SetDevices(q, D, Revoked(D)) \/ SetDevices(q, D, Deleted(D))
      PROVE  DevicesInv'
  BY <1>7, DevicesFall DEF SetDevices
<1>8. CASE \/ RevokeAllDevices(q) \/ CleanupDevices(q)
           \/ \E d \in DOMAIN devices : RevokeDevice(q, d)
           \/ \E D \in SUBSET DOMAIN devices : DeleteOldDevices(q, D)
  BY <1>7, <1>8 DEF RevokeAllDevices, CleanupDevices, RevokeDevice, DeleteOldDevices
<1>9. QED BY <1>2, <1>3, <1>4, <1>5, <1>6, <1>8 DEF FactorStep

\* However many logins count the devices before any of them stores its own, a
\* user has fewer than the limit and the number of threads together.
THEOREM DevicesAreBounded == TwoFactorSpec => []DevicesBounded
<1>1. TwoFactorInit => FactorTyped /\ DevicesInv
  <2>1. SUFFICES ASSUME TwoFactorInit PROVE FactorTyped /\ DevicesInv
    OBVIOUS
  <2>2. FactorTyped
    BY <2>1, FactorInitTyped
  <2>3. ActiveDevices = {} /\ Inserting = {}
    <3>1. workers \subseteq Worker
      BY <2>2, WorkersCounted DEF FactorTyped
    <3>2. DOMAIN devices = {}
      BY <2>1, EmptySeq DEF TwoFactorInit
    <3>3. QED BY <2>1, <3>1, <3>2 DEF TwoFactorInit, ActiveDevices, Inserting, FactorIdle
  <2>4. QED BY <2>2, <2>3, FS_EmptySet, FactorBounds, WorkersCounted DEF DevicesInv, FactorTyped
<1>2. FactorTyped /\ DevicesInv /\ [TwoFactorNext]_factorVars => FactorTyped' /\ DevicesInv'
  <2>1. SUFFICES ASSUME FactorTyped, DevicesInv, [TwoFactorNext]_factorVars PROVE DevicesInv'
    BY FactorNextTyped
  <2>2. CASE UNCHANGED factorVars
    <3>1. UNCHANGED workers /\ ActiveDevices' = ActiveDevices /\ Inserting' = Inserting
      BY <2>2, SameDevices DEF factorVars, Inserting
    <3>2. QED BY <2>1, <3>1, DevicesFewer
  <2>3. ASSUME NEW d \in DOMAIN devices, DeviceExpires(d), UNCHANGED workers PROVE DevicesInv'
    <3>1. ActiveDevices' \subseteq ActiveDevices
      BY <2>3 DEF DeviceExpires, ActiveDevices, Active, FactorTyped, TwoFactorTypeOK, DeviceRow
    <3>2. Inserting' = Inserting
      BY <2>3 DEF DeviceExpires, Inserting
    <3>3. QED BY <2>1, <2>3, <3>1, <3>2, DevicesFewer
  <2>4. QED BY <2>1, <2>2, <2>3, DevicesStep DEF TwoFactorNext
<1>3. FactorTyped /\ DevicesInv => DevicesBounded
  BY DevicesCounted, FactorBounds DEF DevicesInv, DevicesBounded
<1>4. QED BY <1>1, <1>2, <1>3, PTL DEF TwoFactorSpec

-----------------------------------------------------------------------------
(* Two-factor login: backup codes *)

\* Logins that have found a code of a batch unused and not marked it.
Consuming(b, c) ==
  {q \in workers : factorReq[q].pc = "consume" /\ factorReq[q].row = b /\ factorReq[q].code = c}
BackupInv ==
  /\ \A b \in 1..batch, c \in BackupCodes :
       opened[b][c] + Cardinality(Consuming(b, c)) <= Cardinality(workers)
  /\ \A c \in unused : opened[batch][c] = 0

LEMMA ConsumersCounted ==
  ASSUME FactorTyped, NEW b, NEW c
  PROVE  /\ IsFiniteSet(Consuming(b, c)) /\ Cardinality(Consuming(b, c)) \in Nat
         /\ Cardinality(Consuming(b, c)) <= Cardinality(workers) /\ Cardinality(workers) \in Nat
<1>1. Consuming(b, c) \subseteq workers
  BY DEF Consuming
<1>2. QED BY <1>1, SomeWorkers, WorkersCounted DEF FactorTyped

LEMMA OpenedType ==
  ASSUME FactorTyped
  PROVE  batch \in Nat /\ opened \in [1..batch -> [BackupCodes -> Nat]]
BY LenProperties, FactorBounds DEF FactorTyped, TwoFactorTypeOK

\* A handler that goes anywhere but to the marking of a code.
LEMMA NotConsuming ==
  ASSUME FactorTyped, UNCHANGED workers, NEW q \in workers, NEW s, s.pc # "consume",
         FactorGoto(q, s)
  PROVE  \A b, c : Consuming(b, c)' \subseteq Consuming(b, c) /\ q \notin Consuming(b, c)'
<1>1. factorReq \in [Worker -> FactorRequest] /\ workers \subseteq Worker
  BY WorkersCounted DEF FactorTyped, TwoFactorTypeOK
<1>2. \A p \in workers : factorReq'[p] = IF p = q THEN s ELSE factorReq[p]
  BY <1>1 DEF FactorGoto
<1>3. QED BY <1>2 DEF Consuming

\* No code is opened, none becomes unused, and nobody new is about to mark one.
LEMMA BackupsRest ==
  ASSUME FactorTyped, BackupInv, UNCHANGED <<workers, batch, opened>>, unused' \subseteq unused,
         \A b, c : Consuming(b, c)' \subseteq Consuming(b, c)
  PROVE  BackupInv'
<1>1. ASSUME NEW b \in 1..batch, NEW c \in BackupCodes
      PROVE  opened[b][c] + Cardinality(Consuming(b, c)') <= Cardinality(workers)
  <2>1. Cardinality(Consuming(b, c)') \in Nat /\ Cardinality(Consuming(b, c)) \in Nat
        /\ Cardinality(Consuming(b, c)') <= Cardinality(Consuming(b, c))
    BY ConsumersCounted, NoMore
  <2>2. opened[b][c] \in Nat
    BY OpenedType
  <2>3. opened[b][c] + Cardinality(Consuming(b, c)) <= Cardinality(workers)
    BY DEF BackupInv
  <2>4. QED BY <2>1, <2>2, <2>3, ConsumersCounted
<1>2. QED BY <1>1 DEF BackupInv

\* The codes of a new batch have opened nothing.
LEMMA BackupsRenewed ==
  ASSUME FactorTyped, BackupInv, UNCHANGED workers, NewBatch, FactorTyped',
         \A b, c : Consuming(b, c)' \subseteq Consuming(b, c)
  PROVE  BackupInv'
<1>1. batch \in Nat /\ batch' = batch + 1
  BY OpenedType DEF NewBatch
<1>2. ASSUME NEW b \in 1..batch', NEW c \in BackupCodes
      PROVE  opened'[b][c] + Cardinality(Consuming(b, c)') <= Cardinality(workers)
  <2>1. Cardinality(Consuming(b, c)') \in Nat /\ Cardinality(Consuming(b, c)) \in Nat
        /\ Cardinality(Consuming(b, c)') <= Cardinality(Consuming(b, c))
    BY ConsumersCounted, NoMore
  <2>2. CASE b \in 1..batch
    <3>1. opened'[b] = opened[b] /\ opened[b][c] \in Nat
      BY <2>2, BatchTyped, OpenedType
    <3>2. opened[b][c] + Cardinality(Consuming(b, c)) <= Cardinality(workers)
      BY <2>2 DEF BackupInv
    <3>3. QED BY <2>1, <3>1, <3>2, ConsumersCounted
  <2>3. CASE b = batch'
    <3>1. opened'[b][c] = 0
      BY <2>3, BatchTyped
    <3>2. QED BY <2>1, <3>1, ConsumersCounted
  <2>4. QED BY <1>1, <2>2, <2>3
<1>3. \A c \in unused' : opened'[batch'][c] = 0
  BY BatchTyped
<1>4. QED BY <1>2, <1>3 DEF BackupInv

\* A code found unused has opened nothing: all workers may be about to mark it.
LEMMA BackupFound ==
  ASSUME FactorTyped, BackupInv, UNCHANGED workers, NEW q \in workers, NEW code \in BackupCodes,
         LoginWithBackup(q, code)
  PROVE  BackupInv'
<1> DEFINE s == [FactorIdle EXCEPT !.pc = "consume", !.row = batch, !.code = code]
<1>0. s.row = batch /\ s.code = code
  BY DEF FactorIdle
<1>1. \A p \in workers : factorReq'[p] = IF p = q THEN s ELSE factorReq[p]
  <2>1. factorReq \in [Worker -> FactorRequest] /\ workers \subseteq Worker
    BY WorkersCounted DEF FactorTyped, TwoFactorTypeOK
  <2>2. QED BY <2>1 DEF LoginWithBackup, FactorGoto
<1>2. ASSUME NEW b \in 1..batch, NEW c \in BackupCodes
      PROVE  opened[b][c] + Cardinality(Consuming(b, c)') <= Cardinality(workers)
  <2>1. Consuming(b, c)' \subseteq workers
    BY DEF Consuming
  <2>2. Cardinality(Consuming(b, c)') \in Nat
        /\ Cardinality(Consuming(b, c)') <= Cardinality(workers)
    BY <2>1, SomeWorkers DEF FactorTyped
  <2>3. opened[b][c] \in Nat
    BY OpenedType
  <2>4. CASE b = batch /\ c = code
    <3>1. opened[b][c] = 0
      BY <2>4 DEF LoginWithBackup, BackupInv
    <3>2. QED BY <2>2, <3>1, ConsumersCounted
  <2>5. CASE ~(b = batch /\ c = code)
    <3>1. Consuming(b, c)' \subseteq Consuming(b, c)
      BY <1>0, <1>1, <2>5 DEF Consuming
    <3>2. Cardinality(Consuming(b, c)) \in Nat
          /\ Cardinality(Consuming(b, c)') <= Cardinality(Consuming(b, c))
      BY <3>1, ConsumersCounted, NoMore
    <3>3. opened[b][c] + Cardinality(Consuming(b, c)) <= Cardinality(workers)
      BY DEF BackupInv
    <3>4. QED BY <2>2, <2>3, <3>2, <3>3, ConsumersCounted
  <2>6. QED BY <2>4, <2>5
<1>3. QED BY <1>2 DEF BackupInv, LoginWithBackup

\* One more login by a code, one less that is about to mark it.
LEMMA BackupMarked ==
  ASSUME FactorTyped, BackupInv, UNCHANGED workers, NEW q \in workers, BackupConsumed(q)
  PROVE  BackupInv'
<1> DEFINE r == factorReq[q]
<1>1. \A b, c : Consuming(b, c)' \subseteq Consuming(b, c) /\ q \notin Consuming(b, c)'
  <2>1. FactorIdle.pc # "consume" /\ [FactorIdle EXCEPT !.pc = "trust"].pc # "consume"
    BY DEF FactorIdle
  <2>2. QED BY <2>1, NotConsuming DEF BackupConsumed, FactorEnds
<1>2. CASE ~(batchKept /\ batch = r.row)
  BY <1>1, <1>2, BackupsRest DEF BackupConsumed
<1>3. CASE batchKept /\ batch = r.row
  <2>1. /\ unused' = unused \ {r.code} /\ batch' = batch
        /\ opened' = [opened EXCEPT ![r.row][r.code] = @ + 1]
    BY <1>3 DEF BackupConsumed, Unspent
  <2>2. ASSUME NEW b \in 1..batch, NEW c \in BackupCodes
        PROVE  opened'[b][c] = IF b = r.row /\ c = r.code THEN opened[b][c] + 1 ELSE opened[b][c]
    <3>1. opened[b] \in [BackupCodes -> Nat]
      BY OpenedType
    <3>2. opened'[b] = IF b = r.row THEN [opened[b] EXCEPT ![r.code] = @ + 1] ELSE opened[b]
      BY <2>1, OpenedType
    <3>3. QED BY <3>1, <3>2
  <2>3. ASSUME NEW b \in 1..batch, NEW c \in BackupCodes
        PROVE  opened'[b][c] + Cardinality(Consuming(b, c)') <= Cardinality(workers)
    <3>1. opened[b][c] \in Nat
          /\ opened[b][c] + Cardinality(Consuming(b, c)) <= Cardinality(workers)
      BY OpenedType DEF BackupInv
    <3>2. CASE b = r.row /\ c = r.code
      <4>1. q \in Consuming(b, c)
        BY <3>2 DEF Consuming, BackupConsumed, FactorAt
      <4>2. Cardinality(Consuming(b, c)') \in Nat
            /\ Cardinality(Consuming(b, c)') + 1 <= Cardinality(Consuming(b, c))
        BY <1>1, <4>1, ConsumersCounted, OneLess
      <4>3. opened'[b][c] = opened[b][c] + 1
        BY <2>2, <3>2
      <4>4. QED BY <3>1, <4>2, <4>3, ConsumersCounted
    <3>3. CASE ~(b = r.row /\ c = r.code)
      <4>1. Cardinality(Consuming(b, c)') \in Nat
            /\ Cardinality(Consuming(b, c)') <= Cardinality(Consuming(b, c))
        BY <1>1, ConsumersCounted, NoMore
      <4>2. opened'[b][c] = opened[b][c]
        BY <2>2, <3>3
      <4>3. QED BY <3>1, <4>1, <4>2, ConsumersCounted
    <3>4. QED BY <3>2, <3>3
  <2>4. ASSUME NEW c \in unused' PROVE opened'[batch'][c] = 0
    <3>1. c \in unused /\ c # r.code /\ c \in BackupCodes /\ opened[batch][c] = 0
      BY <2>1, <2>4 DEF BackupInv, FactorTyped, TwoFactorTypeOK
    <3>2. CASE batch \in 1..batch
      BY <2>1, <2>2, <3>1, <3>2
    <3>3. CASE batch \notin 1..batch
      <4>1. r.row \notin DOMAIN opened
        BY <1>3, <3>3, OpenedType
      <4>2. opened' = opened
        BY <2>1, <4>1, OpenedType
      <4>3. QED BY <2>1, <3>1, <4>2
    <3>4. QED BY <3>2, <3>3
  <2>5. QED BY <2>1, <2>3, <2>4 DEF BackupInv
<1>4. QED BY <1>2, <1>3

LEMMA BackupsStep ==
  ASSUME FactorTyped, BackupInv, NEW q \in workers, FactorStep(q), UNCHANGED workers
  PROVE  BackupInv'
<1>0. FactorIdle.pc # "consume"
      /\ \A pc \in {"setup", "disable", "regenerate", "trust", "insert", "verify"} : \A row :
           /\ [FactorIdle EXCEPT !.pc = pc].pc # "consume"
           /\ [FactorIdle EXCEPT !.pc = pc, !.row = row].pc # "consume"
  BY DEF FactorIdle
<1>1. ASSUME NEW s, s.pc # "consume", FactorGoto(q, s),
             UNCHANGED <<batch, opened>>, unused' \subseteq unused
      PROVE  BackupInv'
  BY <1>1, NotConsuming, BackupsRest
<1>2. CASE Setup2fa(q) \/ VerifySetup(q) \/ Disable2fa(q) \/ Regenerate(q) \/ LoginWithTotp(q)
  BY <1>0, <1>1, <1>2 DEF Setup2fa, VerifySetup, Disable2fa, Regenerate, LoginWithTotp
<1>3. CASE SecretCreated(q) \/ Disabled(q) \/ FactorDies(q) \/ CountDevices(q) \/ DeviceTrusted(q)
  BY <1>0, <1>1, <1>3
     DEF SecretCreated, Disabled, FactorDies, CountDevices, DeviceTrusted, FactorEnds
<1>4. CASE SetupVerified(q) \/ Regenerated(q)
  <2>1. NewBatch /\ FactorGoto(q, FactorIdle)
    BY <1>4 DEF SetupVerified, Regenerated, FactorEnds
  <2>2. FactorTyped'
    BY FactorStepTyped
  <2>3. QED BY <1>0, <2>1, <2>2, NotConsuming, BackupsRenewed
<1>5. ASSUME NEW D, NEW rows, SetDevices(q, D, rows) PROVE BackupInv'
  <2>1. \A b, c : Consuming(b, c)' = Consuming(b, c)
    BY <1>5 DEF SetDevices, Consuming
  <2>2. QED BY <1>5, <2>1, BackupsRest DEF SetDevices
<1>6. CASE \/ RevokeAllDevices(q) \/ CleanupDevices(q)
           \/ \E d \in DOMAIN devices : RevokeDevice(q, d)
           \/ \E D \in SUBSET DOMAIN devices : DeleteOldDevices(q, D)
  BY <1>5, <1>6 DEF RevokeAllDevices, CleanupDevices, RevokeDevice, DeleteOldDevices
<1>7. QED BY <1>2, <1>3, <1>4, <1>6, BackupFound, BackupMarked DEF FactorStep

\* A backup code opens no more logins than there are threads that could find it
\* unused at once: neither a new batch nor a disabled second factor brings a
\* marked code back.
THEOREM BackupCodesAreBounded == TwoFactorSpec => []BackupCodesBounded
<1>1. TwoFactorInit => FactorTyped /\ BackupInv
  <2>1. SUFFICES ASSUME TwoFactorInit PROVE BackupInv
    BY FactorInitTyped
  <2>2. batch = 0 /\ unused = {}
    BY <2>1 DEF TwoFactorInit
  <2>3. QED BY <2>2 DEF BackupInv
<1>2. FactorTyped /\ BackupInv /\ [TwoFactorNext]_factorVars => FactorTyped' /\ BackupInv'
  <2>1. SUFFICES ASSUME FactorTyped, BackupInv, [TwoFactorNext]_factorVars PROVE BackupInv'
    BY FactorNextTyped
  <2>2. ASSUME UNCHANGED <<workers, batch, opened, unused, factorReq>> PROVE BackupInv'
    <3>1. \A b, c : Consuming(b, c)' = Consuming(b, c)
      BY <2>2 DEF Consuming
    <3>2. QED BY <2>1, <2>2, <3>1, BackupsRest
  <2>3. CASE UNCHANGED factorVars
    BY <2>2, <2>3 DEF factorVars
  <2>4. ASSUME NEW d \in DOMAIN devices, DeviceExpires(d), UNCHANGED workers PROVE BackupInv'
    BY <2>2, <2>4 DEF DeviceExpires
  <2>5. QED BY <2>1, <2>3, <2>4, BackupsStep DEF TwoFactorNext
<1>3. FactorTyped /\ BackupInv => BackupCodesBounded
  <2>1. SUFFICES ASSUME FactorTyped, BackupInv, NEW b \in DOMAIN opened, NEW c \in BackupCodes
                 PROVE  opened[b][c] <= Cardinality(workers)
    BY DEF BackupCodesBounded
  <2>2. b \in 1..batch /\ opened[b][c] \in Nat
    BY <2>1, OpenedType
  <2>3. opened[b][c] + Cardinality(Consuming(b, c)) <= Cardinality(workers)
    BY <2>1, <2>2 DEF BackupInv
  <2>4. QED BY <2>1, <2>2, <2>3, ConsumersCounted
<1>4. QED BY <1>1, <1>2, <1>3, PTL DEF TwoFactorSpec

-----------------------------------------------------------------------------
(* Login codes: type correctness *)

CodesTyped ==
  /\ workers \in WorkerSets /\ LoginCodesTypeOK
  /\ codes \in Seq(CodeRow) /\ loggedIn \in Seq(Nat)

LEMMA CodeBounds ==
  /\ EMAIL_LOGIN_MAX_ATTEMPTS \in Nat /\ EMAIL_LOGIN_MAX_ATTEMPTS >= 1
  /\ CODE_EXPIRY \in Nat /\ MaxCodeTime \in Nat /\ MaxCodes \in Nat
BY LoginCodesAssumption

\* The rows, in the form that the steps need.
LEMMA CodeFacts ==
  ASSUME CodesTyped
  PROVE  /\ codes \in [CodeIds -> CodeRow] /\ loggedIn \in [CodeIds -> Nat]
         /\ Len(codes) \in Nat /\ CodeIds = 1..Len(codes) /\ Len(loggedIn) = Len(codes)
         /\ codeTime \in Nat /\ CodeIds \subseteq Nat
         /\ codeReq \in [Worker -> CodeRequest] /\ workers \subseteq Worker
<1>1. Len(codes) \in Nat /\ DOMAIN codes = 1..Len(codes) /\ codes \in [1..Len(codes) -> CodeRow]
  BY LenProperties DEF CodesTyped
<1>2. Len(loggedIn) \in Nat /\ DOMAIN loggedIn = 1..Len(loggedIn) /\ loggedIn \in [1..Len(loggedIn) -> Nat]
  BY LenProperties DEF CodesTyped
<1>3. DOMAIN loggedIn = DOMAIN codes
  BY DEF CodesTyped, LoginCodesTypeOK, CodeIds
<1>4. QED
  BY <1>1, <1>2, <1>3, CodeBounds, WorkersCounted DEF CodesTyped, LoginCodesTypeOK, CodeIds

LEMMA CodeGotoType ==
  ASSUME CodesTyped, NEW q, NEW r \in CodeRequest, CodeGoto(q, r)
  PROVE  codeReq' \in [Worker -> CodeRequest]
BY CodeFacts DEF CodeGoto

LEMMA CodeIdleType == CodeIdle \in CodeRequest
BY DEF CodeIdle, CodeRequest

LEMMA CodeEndsType ==
  ASSUME CodesTyped, NEW q, CodeEnds(q)
  PROVE  codeReq' \in [Worker -> CodeRequest]
BY CodeGotoType, CodeIdleType DEF CodeEnds

\* The same ids, with rows and counts of their types.
LEMMA CodesKept ==
  ASSUME CodesTyped, UNCHANGED <<workers, codeTime>>, codeReq' \in [Worker -> CodeRequest],
         codes' \in [CodeIds -> CodeRow], loggedIn' \in [CodeIds -> Nat]
  PROVE  CodesTyped'
<1>1. codes' \in Seq(CodeRow) /\ loggedIn' \in Seq(Nat)
  BY CodeFacts, SameIds DEF CodesTyped, CodeIds
<1>2. DOMAIN codes' = CodeIds /\ DOMAIN loggedIn' = CodeIds
  OBVIOUS
<1>3. QED BY <1>1, <1>2 DEF CodesTyped, LoginCodesTypeOK, CodeIds, CodeRow

LEMMA CodeSentTyped ==
  ASSUME CodesTyped, UNCHANGED workers, NEW q \in workers, CodeSent(q)
  PROVE  CodesTyped'
<1> DEFINE older == [c \in CodeIds |-> IF c \in codeReq[q].codes THEN Invalidated(c) ELSE codes[c]]
           row == [created_at |-> codeTime, expires_at |-> codeTime + CODE_EXPIRY,
                   used |-> FALSE, attempts |-> 0, kept |-> TRUE]
<1>1. older \in [CodeIds -> CodeRow]
  <2>1. \A c \in CodeIds : codes[c] \in CodeRow /\ [codes[c] EXCEPT !.expires_at = codeTime] \in CodeRow
    BY CodeFacts DEF CodeRow
  <2>2. QED BY <2>1 DEF Invalidated
<1>2. older \in Seq(CodeRow) /\ Len(older) = Len(codes)
  BY <1>1, SameIds DEF CodesTyped, CodeIds
<1>3. row \in CodeRow
  BY CodeFacts, CodeBounds DEF CodeRow
<1>4. codes' = Append(older, row) /\ loggedIn' = Append(loggedIn, 0)
  BY DEF CodeSent
<1>5. codes' \in Seq(CodeRow) /\ Len(codes') = Len(codes) + 1
      /\ loggedIn' \in Seq(Nat) /\ Len(loggedIn') = Len(codes) + 1
  <2> HIDE DEF older, row
  <2>1. Len(loggedIn) = Len(codes) /\ loggedIn \in Seq(Nat) /\ Len(codes) \in Nat
    BY CodeFacts DEF CodesTyped
  <2>2. QED BY <1>2, <1>3, <1>4, <2>1
<1>6. Len(codes') \in 0..MaxCodes
  <2>1. Len(codes) + Cardinality(workers) <= MaxCodes
    BY DEF CodeSent
  <2>2. QED BY <1>5, <2>1, CodeFacts, CodeBounds, WorkersCounted DEF CodesTyped
<1>7. /\ DOMAIN codes' = 1..Len(codes') /\ DOMAIN loggedIn' = 1..Len(codes')
      /\ \A c \in DOMAIN codes' : codes'[c] \in CodeRow /\ loggedIn'[c] \in Nat
  BY <1>5, LenProperties
<1>8. codeReq' \in [Worker -> CodeRequest]
  BY CodeEndsType DEF CodeSent
<1>9. QED BY <1>5, <1>6, <1>7, <1>8 DEF CodeSent, CodesTyped, LoginCodesTypeOK, CodeIds

LEMMA CodesStepTyped ==
  ASSUME CodesTyped, UNCHANGED workers, NEW q \in workers, CodeStep(q)
  PROVE  CodesTyped'
<1> DEFINE r == codeReq[q]
<1>0. r \in CodeRequest
  BY CodeFacts
<1>1. ASSUME NEW s \in CodeRequest, CodeGoto(q, s), UNCHANGED <<codes, loggedIn, codeTime>>
      PROVE  CodesTyped'
  BY <1>1, CodeGotoType, CodeFacts, CodesKept
<1>2. CASE RequestCode(q)
  <2>1. [CodeIdle EXCEPT !.pc = "send", !.codes = CodeIds] \in CodeRequest
    BY CodeFacts DEF CodeIdle, CodeRequest
  <2>2. QED BY <1>1, <1>2, <2>1 DEF RequestCode
<1>3. CASE CodeLost(q)
  BY <1>1, <1>3, CodeIdleType DEF CodeLost, CodeEnds
<1>4. ASSUME NEW typed \in 0..MaxCodes, VerifyCode(q, typed) PROVE CodesTyped'
  <2>1. \A c \in CodeIds :
          [CodeIdle EXCEPT !.pc = "check", !.code = c, !.typed = typed] \in CodeRequest
    <3>1. typed \in Nat
      BY CodeBounds
    <3>2. QED BY <3>1, CodeFacts DEF CodeIdle, CodeRequest
  <2>2. QED BY <1>1, <1>4, <2>1 DEF VerifyCode
<1>5. CASE CheckCode(q)
  <2>1. [r EXCEPT !.pc = "right", !.code = r.typed] \in CodeRequest
        /\ [r EXCEPT !.pc = "wrong"] \in CodeRequest
    BY <1>0 DEF CodeRequest
  <2>2. QED BY <1>1, <1>5, <2>1 DEF CheckCode
<1>6. CASE WrongCode(q)
  <2>1. codes' \in [CodeIds -> CodeRow]
    <3>1. \A c \in CodeIds : codes[c] \in CodeRow
                            /\ [codes[c] EXCEPT !.attempts = @ + 1] \in CodeRow
      BY CodeFacts DEF CodeRow
    <3>2. \A c \in CodeIds : codes'[c] = IF c = r.code THEN [codes[c] EXCEPT !.attempts = @ + 1]
                                                       ELSE codes[c]
      BY <1>6, CodeFacts DEF WrongCode
    <3>3. codes' \in [CodeIds -> {codes'[c] : c \in CodeIds}]
      BY <1>6, CodeFacts DEF WrongCode
    <3>4. QED BY <3>1, <3>2, <3>3
  <2>2. QED BY <1>6, <2>1, CodeFacts, CodeEndsType, CodesKept DEF WrongCode
<1>7. CASE RightCode(q)
  <2>1. codes' \in [CodeIds -> CodeRow]
    BY <1>7, CodeFacts DEF RightCode, Used, CodeRow
  <2>2. loggedIn' \in [CodeIds -> Nat]
    <3>1. \A c \in CodeIds : loggedIn[c] \in Nat /\ loggedIn[c] + 1 \in Nat
      BY CodeFacts
    <3>2. \A c \in CodeIds : loggedIn'[c] = IF c = r.code THEN loggedIn[c] + 1 ELSE loggedIn[c]
      BY <1>7, CodeFacts DEF RightCode
    <3>3. loggedIn' \in [CodeIds -> {loggedIn'[c] : c \in CodeIds}]
      BY <1>7, CodeFacts DEF RightCode
    <3>4. QED BY <3>1, <3>2, <3>3
  <2>3. QED BY <1>7, <2>1, <2>2, CodeFacts, CodeEndsType, CodesKept DEF RightCode
<1>8. CASE CleanupCodes(q)
  <2>1. codes' \in [CodeIds -> CodeRow]
    BY <1>8, CodeFacts DEF CleanupCodes, CodeRow
  <2>2. QED BY <1>8, <2>1, CodeFacts, CodesKept DEF CleanupCodes
<1>9. QED BY <1>2, <1>3, <1>4, <1>5, <1>6, <1>7, <1>8, CodeSentTyped DEF CodeStep

LEMMA CodesInitTyped ==
  ASSUME LoginCodesInit
  PROVE  CodesTyped /\ CodeIds = {}
<1>1. <<>> \in Seq(CodeRow) /\ <<>> \in Seq(Nat) /\ DOMAIN <<>> = 1..0 /\ 1..0 = {}
  BY EmptySeq
<1>2. CodeIds = 1..0 /\ CodeIds = {} /\ DOMAIN loggedIn = CodeIds
  BY <1>1 DEF LoginCodesInit, CodeIds
<1>3. DOMAIN codes \in {1..n : n \in 0..MaxCodes} /\ codeTime \in 0..MaxCodeTime
  BY <1>2, CodeBounds DEF LoginCodesInit, CodeIds
<1>4. QED
  BY <1>1, <1>2, <1>3, CodeIdleType
     DEF LoginCodesInit, WorkersInit, CodesTyped, LoginCodesTypeOK

LEMMA CodesNextTyped ==
  ASSUME CodesTyped, [LoginCodesNext]_codesVars
  PROVE  CodesTyped'
<1>1. CASE UNCHANGED codesVars
  BY <1>1 DEF codesVars, CodesTyped, LoginCodesTypeOK, CodeIds
<1>2. CASE CodeTick /\ UNCHANGED workers
  <2>1. codeTime' \in 0..MaxCodeTime
    BY <1>2, CodeBounds DEF CodeTick, CodesTyped, LoginCodesTypeOK
  <2>2. QED BY <1>2, <2>1 DEF CodeTick, CodesTyped, LoginCodesTypeOK, CodeIds
<1>3. QED BY <1>1, <1>2, CodesStepTyped DEF LoginCodesNext

\* The variables of the login codes hold values of their types, for every number
\* of workers and every limit.
THEOREM CodesTypeCorrect == LoginCodesSpec => []LoginCodesTypeOK
<1>1. LoginCodesInit => CodesTyped
  BY CodesInitTyped
<1>2. CodesTyped /\ [LoginCodesNext]_codesVars => CodesTyped'
  BY CodesNextTyped
<1>3. CodesTyped => LoginCodesTypeOK
  BY DEF CodesTyped
<1>4. QED BY <1>1, <1>2, <1>3, PTL DEF LoginCodesSpec

-----------------------------------------------------------------------------
(* Login codes: how often a code is tried, and what it opens *)

\* Handlers that counted the attempts and have not written theirs, and those that
\* found the code unused and have not marked it.
Trying(c) == {q \in workers : codeReq[q].pc \in {"check", "wrong"} /\ codeReq[q].code = c}
Entering(c) == {q \in workers : codeReq[q].pc = "right" /\ codeReq[q].code = c}
CodeUse(c) ==
  /\ codes[c].attempts + Cardinality(Trying(c)) < EMAIL_LOGIN_MAX_ATTEMPTS + Cardinality(workers)
  /\ loggedIn[c] + Cardinality(Entering(c)) <= Cardinality(workers)
  /\ ~codes[c].used => loggedIn[c] = 0
CodeUseInv == \A c \in CodeIds : CodeUse(c)

LEMMA UsersCounted ==
  ASSUME CodesTyped, NEW c
  PROVE  /\ IsFiniteSet(Trying(c)) /\ Cardinality(Trying(c)) \in Nat
         /\ Cardinality(Trying(c)) <= Cardinality(workers) /\ Cardinality(workers) \in Nat
         /\ IsFiniteSet(Entering(c)) /\ Cardinality(Entering(c)) \in Nat
         /\ Cardinality(Entering(c)) <= Cardinality(workers)
<1>1. Trying(c) \subseteq workers /\ Entering(c) \subseteq workers
  BY DEF Trying, Entering
<1>2. QED BY <1>1, SomeWorkers, WorkersCounted DEF CodesTyped

LEMMA CodeRowFacts ==
  ASSUME CodesTyped, NEW c \in CodeIds
  PROVE  codes[c] \in CodeRow /\ codes[c].attempts \in Nat /\ loggedIn[c] \in Nat
BY CodeFacts DEF CodeRow

\* Where a handler's move leaves it.
LEMMA AfterCodeGoto ==
  ASSUME CodesTyped, UNCHANGED workers, NEW q \in workers, NEW s, CodeGoto(q, s), NEW c
  PROVE  /\ s.pc \notin {"check", "wrong"} \/ s.code # c \/ q \in Trying(c)
              => Trying(c)' \subseteq Trying(c)
         /\ s.pc \notin {"check", "wrong"} => q \notin Trying(c)'
         /\ s.pc # "right" \/ s.code # c => Entering(c)' \subseteq Entering(c)
         /\ s.pc # "right" => q \notin Entering(c)'
<1>1. \A p \in workers : codeReq'[p] = IF p = q THEN s ELSE codeReq[p]
  BY CodeFacts DEF CodeGoto
<1>2. QED BY <1>1 DEF Trying, Entering

\* A code that is not tried or entered by anyone new, and whose row keeps its
\* count and its mark.
LEMMA CodeUseKept ==
  ASSUME CodesTyped, UNCHANGED workers, NEW c \in CodeIds, CodeUse(c),
         Trying(c)' \subseteq Trying(c), Entering(c)' \subseteq Entering(c),
         codes'[c].attempts = codes[c].attempts, codes'[c].used = codes[c].used,
         loggedIn'[c] = loggedIn[c]
  PROVE  CodeUse(c)'
<1>1. Cardinality(Trying(c)') \in Nat /\ Cardinality(Trying(c)') <= Cardinality(Trying(c))
      /\ Cardinality(Entering(c)') \in Nat /\ Cardinality(Entering(c)') <= Cardinality(Entering(c))
  BY UsersCounted, NoMore
<1>2. QED BY <1>1, UsersCounted, CodeRowFacts, CodeBounds DEF CodeUse

\* A live code, which a handler begins to try: all workers may be trying it.
LEMMA CodeUseTried ==
  ASSUME CodesTyped, CodeUseInv, UNCHANGED workers, NEW q \in workers,
         NEW typed, VerifyCode(q, typed), NEW c \in CodeIds
  PROVE  CodeUse(c)'
<1>1. PICK d \in CodeIds :
        Live(d) /\ CodeGoto(q, [CodeIdle EXCEPT !.pc = "check", !.code = d, !.typed = typed])
  BY DEF VerifyCode
<1> DEFINE s == [CodeIdle EXCEPT !.pc = "check", !.code = d, !.typed = typed]
<1>2. s.pc = "check" /\ s.code = d
  BY DEF CodeIdle
<1>3. Entering(c)' \subseteq Entering(c)
  BY <1>1, <1>2, AfterCodeGoto
<1>4. CodeUse(c) /\ UNCHANGED <<codes, loggedIn>>
  BY DEF CodeUseInv, VerifyCode
<1>5. CASE c = d
  <2>1. Trying(c)' \subseteq workers
    BY DEF Trying
  <2>2. Cardinality(Trying(c)') \in Nat /\ Cardinality(Trying(c)') <= Cardinality(workers)
    BY <2>1, SomeWorkers DEF CodesTyped
  <2>3. codes[c].attempts < EMAIL_LOGIN_MAX_ATTEMPTS
    BY <1>1, <1>5 DEF Live
  <2>4. Cardinality(Entering(c)') \in Nat /\ Cardinality(Entering(c)') <= Cardinality(Entering(c))
    BY <1>3, UsersCounted, NoMore
  <2>5. QED BY <1>4, <2>2, <2>3, <2>4, UsersCounted, CodeRowFacts, CodeBounds DEF CodeUse
<1>6. CASE c # d
  <2>1. Trying(c)' \subseteq Trying(c)
    BY <1>1, <1>2, <1>6, AfterCodeGoto
  <2>2. QED BY <1>3, <1>4, <2>1, CodeUseKept
<1>7. QED BY <1>5, <1>6

\* A code found unused has opened nothing: all workers may be about to enter.
LEMMA CodeUseChecked ==
  ASSUME CodesTyped, CodeUseInv, UNCHANGED workers, NEW q \in workers, CheckCode(q),
         NEW c \in CodeIds
  PROVE  CodeUse(c)'
<1> DEFINE r == codeReq[q]
<1>0. r \in CodeRequest /\ r.pc = "check"
  BY CodeFacts DEF CheckCode, CodeAt
<1>1. CodeUse(c) /\ UNCHANGED <<codes, loggedIn>>
  BY DEF CodeUseInv, CheckCode
<1>2. CASE r.typed # 0 /\ Live(r.typed)
  <2> DEFINE s == [r EXCEPT !.pc = "right", !.code = r.typed]
  <2>1. CodeGoto(q, s) /\ s.pc = "right" /\ s.code = r.typed
    BY <1>0, <1>2 DEF CheckCode, CodeRequest
  <2>2. Trying(c)' \subseteq Trying(c)
    BY <2>1, AfterCodeGoto
  <2>3. CASE c = r.typed
    <3>1. Entering(c)' \subseteq workers
      BY DEF Entering
    <3>2. Cardinality(Entering(c)') \in Nat /\ Cardinality(Entering(c)') <= Cardinality(workers)
      BY <3>1, SomeWorkers DEF CodesTyped
    <3>3. loggedIn[c] = 0
      BY <1>1, <1>2, <2>3 DEF CodeUse, Live, Unused
    <3>4. Cardinality(Trying(c)') \in Nat /\ Cardinality(Trying(c)') <= Cardinality(Trying(c))
      BY <2>2, UsersCounted, NoMore
    <3>5. QED BY <1>1, <3>2, <3>3, <3>4, UsersCounted, CodeRowFacts, CodeBounds DEF CodeUse
  <2>4. CASE c # r.typed
    <3>1. Entering(c)' \subseteq Entering(c)
      BY <2>1, <2>4, AfterCodeGoto
    <3>2. QED BY <1>1, <2>2, <3>1, CodeUseKept
  <2>5. QED BY <2>3, <2>4
<1>3. CASE ~(r.typed # 0 /\ Live(r.typed))
  <2> DEFINE s == [r EXCEPT !.pc = "wrong"]
  <2>1. CodeGoto(q, s) /\ s.pc = "wrong" /\ s.code = r.code
    BY <1>0, <1>3 DEF CheckCode, CodeRequest
  <2>2. Entering(c)' \subseteq Entering(c)
    BY <2>1, AfterCodeGoto
  <2>3. q \in Trying(r.code)
    BY <1>0 DEF Trying
  <2>4. Trying(c)' \subseteq Trying(c)
    BY <2>1, <2>3, AfterCodeGoto
  <2>5. QED BY <1>1, <2>2, <2>4, CodeUseKept
<1>4. QED BY <1>2, <1>3

\* A handler that ends tries and enters no code.
LEMMA AfterCodeEnds ==
  ASSUME CodesTyped, UNCHANGED workers, NEW q \in workers, CodeEnds(q), NEW c
  PROVE  Trying(c)' \subseteq Trying(c) /\ Entering(c)' \subseteq Entering(c)
         /\ q \notin Trying(c)' /\ q \notin Entering(c)'
<1>1. CodeGoto(q, CodeIdle) /\ CodeIdle.pc = "idle"
  BY DEF CodeEnds, CodeIdle
<1>2. QED BY <1>1, AfterCodeGoto

LEMMA CodeUseWrong ==
  ASSUME CodesTyped, CodeUseInv, UNCHANGED workers, NEW q \in workers, WrongCode(q),
         NEW c \in CodeIds
  PROVE  CodeUse(c)'
<1>1. CodeUse(c) /\ UNCHANGED loggedIn /\ CodeEnds(q)
  BY DEF CodeUseInv, WrongCode
<1>2. codes[c] \in CodeRow
      /\ codes'[c] = IF c = codeReq[q].code THEN [codes[c] EXCEPT !.attempts = @ + 1] ELSE codes[c]
  BY CodeFacts DEF WrongCode
<1>3. CASE c = codeReq[q].code
  <2>1. codes'[c].attempts = codes[c].attempts + 1 /\ codes'[c].used = codes[c].used
    BY <1>2, <1>3 DEF CodeRow
  <2>2. q \in Trying(c)
    BY <1>3 DEF Trying, WrongCode, CodeAt
  <2>3. Cardinality(Trying(c)') \in Nat /\ Cardinality(Trying(c)') + 1 <= Cardinality(Trying(c))
    BY <1>1, <2>2, AfterCodeEnds, UsersCounted, OneLess
  <2>4. Cardinality(Entering(c)') \in Nat /\ Cardinality(Entering(c)') <= Cardinality(Entering(c))
    BY <1>1, AfterCodeEnds, UsersCounted, NoMore
  <2>5. QED BY <1>1, <2>1, <2>3, <2>4, UsersCounted, CodeRowFacts, CodeBounds DEF CodeUse
<1>4. CASE c # codeReq[q].code
  BY <1>1, <1>2, <1>4, AfterCodeEnds, CodeUseKept
<1>5. QED BY <1>3, <1>4

LEMMA CodeUseRight ==
  ASSUME CodesTyped, CodeUseInv, UNCHANGED workers, NEW q \in workers, RightCode(q),
         NEW c \in CodeIds
  PROVE  CodeUse(c)'
<1>1. CodeUse(c) /\ CodeEnds(q)
  BY DEF CodeUseInv, RightCode
<1>2. /\ codes[c] \in CodeRow
      /\ codes'[c] = IF c = codeReq[q].code THEN Used(codes[c]) ELSE codes[c]
      /\ loggedIn'[c] = IF c = codeReq[q].code THEN loggedIn[c] + 1 ELSE loggedIn[c]
  BY CodeFacts DEF RightCode
<1>3. CASE c = codeReq[q].code
  <2>1. codes'[c].attempts = codes[c].attempts /\ codes'[c].used /\ loggedIn'[c] = loggedIn[c] + 1
    BY <1>2, <1>3 DEF CodeRow, Used
  <2>2. q \in Entering(c)
    BY <1>3 DEF Entering, RightCode, CodeAt
  <2>3. Cardinality(Entering(c)') \in Nat /\ Cardinality(Entering(c)') + 1 <= Cardinality(Entering(c))
    BY <1>1, <2>2, AfterCodeEnds, UsersCounted, OneLess
  <2>4. Cardinality(Trying(c)') \in Nat /\ Cardinality(Trying(c)') <= Cardinality(Trying(c))
    BY <1>1, AfterCodeEnds, UsersCounted, NoMore
  <2>5. QED BY <1>1, <2>1, <2>3, <2>4, UsersCounted, CodeRowFacts, CodeBounds DEF CodeUse
<1>4. CASE c # codeReq[q].code
  BY <1>1, <1>2, <1>4, AfterCodeEnds, CodeUseKept
<1>5. QED BY <1>3, <1>4

\* What a request for a code leaves: the older codes, with what they were tried
\* and used, those that it saw no longer good; and a new one.
LEMMA SentRows ==
  ASSUME CodesTyped, UNCHANGED workers, NEW q \in workers, CodeSent(q)
  PROVE  /\ CodeIds' = CodeIds \cup {Len(codes) + 1}
         /\ \A c \in CodeIds :
              /\ codes'[c].attempts = codes[c].attempts /\ codes'[c].used = codes[c].used
              /\ loggedIn'[c] = loggedIn[c] /\ codes'[c].kept = codes[c].kept
              /\ codes'[c].expires_at = IF c \in codeReq[q].codes /\ Unused(c)
                                        THEN codeTime ELSE codes[c].expires_at
         /\ codes'[Len(codes) + 1].attempts = 0 /\ loggedIn'[Len(codes) + 1] = 0
<1> DEFINE older == [c \in CodeIds |-> IF c \in codeReq[q].codes THEN Invalidated(c) ELSE codes[c]]
           row == [created_at |-> codeTime, expires_at |-> codeTime + CODE_EXPIRY,
                   used |-> FALSE, attempts |-> 0, kept |-> TRUE]
<1>1. \A c \in CodeIds : codes[c] \in CodeRow /\ [codes[c] EXCEPT !.expires_at = codeTime] \in CodeRow
  BY CodeFacts DEF CodeRow
<1>2. older \in [CodeIds -> CodeRow]
  BY <1>1 DEF Invalidated
<1>3. older \in Seq(CodeRow) /\ Len(older) = Len(codes)
  BY <1>2, SameIds DEF CodesTyped, CodeIds
<1>4. row \in CodeRow /\ row.attempts = 0
  BY CodeFacts, CodeBounds DEF CodeRow
<1>5. codes' = Append(older, row) /\ loggedIn' = Append(loggedIn, 0)
  BY DEF CodeSent
<1>6. \A c \in CodeIds :
        /\ older[c].attempts = codes[c].attempts /\ older[c].used = codes[c].used
        /\ older[c].kept = codes[c].kept
        /\ older[c].expires_at = IF c \in codeReq[q].codes /\ Unused(c)
                                 THEN codeTime ELSE codes[c].expires_at
  BY <1>1 DEF Invalidated, CodeRow
<1>7. /\ Len(codes) \in Nat /\ CodeIds = 1..Len(codes)
      /\ loggedIn \in Seq(Nat) /\ Len(loggedIn) = Len(codes)
  BY CodeFacts DEF CodesTyped
<1> HIDE DEF older, row
<1>8. /\ codes' \in Seq(CodeRow) /\ Len(codes') = Len(codes) + 1
      /\ codes'[Len(codes) + 1] = row
      /\ \A c \in 1..Len(codes) : codes'[c] = older[c]
  BY <1>3, <1>4, <1>5, <1>7
<1>9. loggedIn'[Len(codes) + 1] = 0 /\ \A c \in 1..Len(codes) : loggedIn'[c] = loggedIn[c]
  BY <1>5, <1>7
<1>10. CodeIds' = 1..Len(codes) + 1
  BY <1>8, LenProperties DEF CodeIds
<1>11. QED BY <1>4, <1>6, <1>7, <1>8, <1>9, <1>10

LEMMA CodeUseStep ==
  ASSUME CodesTyped, CodeUseInv, UNCHANGED workers, NEW q \in workers, CodeStep(q)
  PROVE  CodeUseInv'
<1>1. ASSUME NEW s, s.pc \notin {"check", "wrong", "right"}, CodeGoto(q, s),
             UNCHANGED <<codes, loggedIn>>
      PROVE  CodeUseInv'
  BY <1>1, AfterCodeGoto, CodeUseKept DEF CodeUseInv, CodeIds
<1>2. CASE RequestCode(q)
  <2>1. [CodeIdle EXCEPT !.pc = "send", !.codes = CodeIds].pc = "send"
    BY DEF CodeIdle
  <2>2. QED BY <1>1, <1>2, <2>1 DEF RequestCode
<1>3. CASE CodeLost(q)
  <2>1. CodeIdle.pc = "idle"
    BY DEF CodeIdle
  <2>2. QED BY <1>1, <1>3, <2>1 DEF CodeLost, CodeEnds
<1>4. ASSUME UNCHANGED codes, \A c \in CodeIds : CodeUse(c)' PROVE CodeUseInv'
  BY <1>4 DEF CodeUseInv, CodeIds
<1>5. ASSUME NEW typed, VerifyCode(q, typed) PROVE CodeUseInv'
  BY <1>4, <1>5, CodeUseTried DEF VerifyCode
<1>6. CASE CheckCode(q)
  BY <1>4, <1>6, CodeUseChecked DEF CheckCode
<1>7. CASE WrongCode(q) \/ RightCode(q)
  <2>1. CodeIds' = CodeIds
    BY <1>7, CodeFacts DEF WrongCode, RightCode, CodeIds
  <2>2. QED BY <1>7, <2>1, CodeUseWrong, CodeUseRight DEF CodeUseInv
<1>8. CASE CodeSent(q)
  <2>1. CodeEnds(q)
    BY <1>8 DEF CodeSent
  <2>2. ASSUME NEW c \in CodeIds PROVE CodeUse(c)'
    BY <1>8, <2>1, SentRows, AfterCodeEnds, CodeUseKept DEF CodeUseInv
  <2>3. ASSUME NEW c, c = Len(codes) + 1 PROVE CodeUse(c)'
    <3>1. codes'[c].attempts = 0 /\ loggedIn'[c] = 0
      BY <1>8, <2>3, SentRows
    <3>2. Trying(c)' \subseteq workers /\ Entering(c)' \subseteq workers
      BY DEF Trying, Entering
    <3>3. /\ Cardinality(Trying(c)') \in Nat /\ Cardinality(Trying(c)') <= Cardinality(workers)
          /\ Cardinality(Entering(c)') \in Nat /\ Cardinality(Entering(c)') <= Cardinality(workers)
      BY <3>2, SomeWorkers DEF CodesTyped
    <3>4. QED BY <3>1, <3>3, UsersCounted, CodeBounds DEF CodeUse
  <2>4. QED BY <1>8, <2>2, <2>3, SentRows DEF CodeUseInv
<1>9. CASE CleanupCodes(q)
  <2>1. /\ CodeIds' = CodeIds /\ UNCHANGED <<loggedIn, codeReq>>
        /\ \A c \in CodeIds : codes[c] \in CodeRow
             /\ codes'[c].attempts = codes[c].attempts /\ codes'[c].used = codes[c].used
    BY <1>9, CodeFacts DEF CleanupCodes, CodeIds, CodeRow
  <2>2. \A c : Trying(c)' = Trying(c) /\ Entering(c)' = Entering(c)
    BY <2>1 DEF Trying, Entering
  <2>3. QED BY <2>1, <2>2, CodeUseKept DEF CodeUseInv
<1>10. QED
  BY <1>2, <1>3, <1>5, <1>6, <1>7, <1>8, <1>9 DEF CodeStep

\* A code is tried no more often than the limit and the number of threads allow,
\* and opens no more logins than there are threads that could find it unused at
\* once: what is asked for or cleaned up in between makes no difference.
THEOREM CodeUseIsBounded == LoginCodesSpec => []CodeUseBounded
<1>1. LoginCodesInit => CodesTyped /\ CodeUseInv
  BY CodesInitTyped DEF CodeUseInv
<1>2. CodesTyped /\ CodeUseInv /\ [LoginCodesNext]_codesVars => CodesTyped' /\ CodeUseInv'
  <2>1. SUFFICES ASSUME CodesTyped, CodeUseInv, [LoginCodesNext]_codesVars PROVE CodeUseInv'
    BY CodesNextTyped
  <2>2. ASSUME UNCHANGED <<workers, codes, loggedIn, codeReq>> PROVE CodeUseInv'
    <3>1. \A c : Trying(c)' = Trying(c) /\ Entering(c)' = Entering(c)
      BY <2>2 DEF Trying, Entering
    <3>2. CodeIds' = CodeIds
      BY <2>2 DEF CodeIds
    <3>3. QED BY <2>1, <2>2, <3>1, <3>2, CodeUseKept DEF CodeUseInv
  <2>3. CASE UNCHANGED codesVars
    BY <2>2, <2>3 DEF codesVars
  <2>4. CASE CodeTick /\ UNCHANGED workers
    BY <2>2, <2>4 DEF CodeTick
  <2>5. QED BY <2>1, <2>3, <2>4, CodeUseStep DEF LoginCodesNext
<1>3. CodesTyped /\ CodeUseInv => CodeUseBounded
  BY UsersCounted, CodeRowFacts, CodeBounds DEF CodeUseInv, CodeUse, CodeUseBounded
<1>4. QED BY <1>1, <1>2, <1>3, PTL DEF LoginCodesSpec

-----------------------------------------------------------------------------
(* Login codes: one live code *)

\* With one worker: at most one code is unused, and a request that is about to
\* store another has seen them all.
OneCodeInv ==
  Serial => /\ \A c, d \in CodeIds : Unused(c) /\ Unused(d) => c = d
            /\ \A q \in workers : codeReq[q].pc = "send" => codeReq[q].codes = CodeIds

\* No code becomes unused.
LEMMA FewerUnused ==
  ASSUME OneCodeInv, UNCHANGED workers, CodeIds' = CodeIds,
         \A c \in CodeIds : Unused(c)' => Unused(c),
         \A q \in workers : codeReq'[q].pc = "send" =>
           codeReq'[q].codes = CodeIds \/ (codeReq[q].pc = "send" /\ codeReq'[q].codes = codeReq[q].codes)
  PROVE  OneCodeInv'
BY DEF OneCodeInv, Serial

LEMMA OneCodeStep ==
  ASSUME CodesTyped, OneCodeInv, UNCHANGED workers, NEW q \in workers, CodeStep(q)
  PROVE  OneCodeInv'
<1>0. ASSUME NEW s, CodeGoto(q, s)
      PROVE  \A p \in workers : codeReq'[p] = IF p = q THEN s ELSE codeReq[p]
  BY <1>0, CodeFacts DEF CodeGoto
<1>1. ASSUME NEW s, s.pc = "send" => s.codes = CodeIds, CodeGoto(q, s), UNCHANGED <<codes, codeTime>>
      PROVE  OneCodeInv'
  <2>1. CodeIds' = CodeIds /\ \A c \in CodeIds : Unused(c)' => Unused(c)
    BY <1>1 DEF CodeIds, Unused
  <2>2. \A p \in workers : codeReq'[p] = IF p = q THEN s ELSE codeReq[p]
    BY <1>0, <1>1
  <2>3. QED BY <1>1, <2>1, <2>2, FewerUnused
<1>2. CodeIdle.pc = "idle"
  BY DEF CodeIdle
<1>3. CASE RequestCode(q)
  <2>1. [CodeIdle EXCEPT !.pc = "send", !.codes = CodeIds].codes = CodeIds
    BY DEF CodeIdle
  <2>2. QED BY <1>1, <1>3, <2>1 DEF RequestCode
<1>4. CASE CodeLost(q)
  BY <1>1, <1>2, <1>4 DEF CodeLost, CodeEnds
<1>5. ASSUME NEW typed, VerifyCode(q, typed) PROVE OneCodeInv'
  <2>1. \A c : [CodeIdle EXCEPT !.pc = "check", !.code = c, !.typed = typed].pc = "check"
    BY DEF CodeIdle
  <2>2. QED BY <1>1, <1>5, <2>1 DEF VerifyCode
<1>6. CASE CheckCode(q)
  <2> DEFINE r == codeReq[q]
  <2>1. [r EXCEPT !.pc = "right", !.code = r.typed].pc = "right" /\ [r EXCEPT !.pc = "wrong"].pc = "wrong"
    BY CodeFacts DEF CodeRequest
  <2>2. QED BY <1>1, <1>6, <2>1 DEF CheckCode
<1>7. ASSUME CodeIds' = CodeIds, UNCHANGED codeTime,
             \A c \in CodeIds : /\ codes'[c].used \in BOOLEAN /\ codes'[c].kept \in BOOLEAN
                                /\ codes[c].used => codes'[c].used
                                /\ codes'[c].kept => codes[c].kept
                                /\ codes'[c].expires_at = codes[c].expires_at,
             CodeEnds(q) \/ UNCHANGED codeReq
      PROVE  OneCodeInv'
  <2>1. \A c \in CodeIds : Unused(c)' => Unused(c)
    BY <1>7 DEF Unused
  <2>2. \A p \in workers : codeReq'[p] = codeReq[p] \/ codeReq'[p].pc = "idle"
    BY <1>0, <1>2, <1>7 DEF CodeEnds
  <2>3. QED BY <1>7, <2>1, <2>2, FewerUnused
<1>8. CASE WrongCode(q)
  BY <1>7, <1>8, CodeFacts DEF WrongCode, CodeRow, CodeIds
<1>9. CASE RightCode(q)
  BY <1>7, <1>9, CodeFacts DEF RightCode, Used, CodeRow, CodeIds
<1>10. CASE CleanupCodes(q)
  BY <1>7, <1>10, CodeFacts DEF CleanupCodes, CodeRow, CodeIds
\* The request saw every code: none of them outlives it.
<1>11. CASE CodeSent(q)
  <2>1. SUFFICES ASSUME Serial
                 PROVE  /\ \A c, d \in CodeIds' : Unused(c)' /\ Unused(d)' => c = d
                        /\ \A p \in workers : codeReq'[p].pc = "send" => codeReq'[p].codes = CodeIds'
    BY DEF OneCodeInv, Serial
  <2>2. codeReq[q].codes = CodeIds
    BY <1>11, <2>1 DEF OneCodeInv, CodeSent, CodeAt
  <2>3. \A c \in CodeIds : ~Unused(c)'
    <3>1. SUFFICES ASSUME NEW c \in CodeIds PROVE ~Unused(c)'
      OBVIOUS
    <3>2. codes'[c].kept = codes[c].kept /\ codes'[c].used = codes[c].used
          /\ codes'[c].expires_at = IF Unused(c) THEN codeTime ELSE codes[c].expires_at
      BY <1>11, <2>2, <3>1, SentRows
    <3>3. codeTime' = codeTime /\ codeTime \in Nat
      BY <1>11, CodeFacts DEF CodeSent
    <3>4. QED BY <3>2, <3>3 DEF Unused
  <2>4. \A c, d \in CodeIds' : Unused(c)' /\ Unused(d)' => c = d
    BY <1>11, <2>3, SentRows
  <2>5. \A p \in workers : codeReq'[p].pc = "idle"
    <3>1. \A p \in workers : p = q
      BY <2>1, Alone DEF CodesTyped
    <3>2. QED BY <1>0, <1>2, <1>11, <3>1 DEF CodeSent, CodeEnds
  <2>6. QED BY <2>4, <2>5
<1>12. QED BY <1>3, <1>4, <1>5, <1>6, <1>8, <1>9, <1>10, <1>11 DEF CodeStep

\* While handlers run one at a time a user never has two codes that are good for
\* a login, however requests, failures to send, attempts and clean-ups follow on
\* one another.
THEOREM OneCodeIsLive == LoginCodesSpec => []OneLiveCode
<1>1. LoginCodesInit => CodesTyped /\ OneCodeInv
  <2>1. SUFFICES ASSUME LoginCodesInit PROVE OneCodeInv
    BY CodesInitTyped
  <2>2. CodeIds = {} /\ \A q \in workers : codeReq[q].pc = "idle"
    BY <2>1, CodesInitTyped, CodeFacts DEF LoginCodesInit, CodeIdle
  <2>3. QED BY <2>2 DEF OneCodeInv
<1>2. CodesTyped /\ OneCodeInv /\ [LoginCodesNext]_codesVars => CodesTyped' /\ OneCodeInv'
  <2>1. SUFFICES ASSUME CodesTyped, OneCodeInv, [LoginCodesNext]_codesVars PROVE OneCodeInv'
    BY CodesNextTyped
  <2>2. CASE UNCHANGED codesVars
    BY <2>1, <2>2 DEF codesVars, OneCodeInv, Serial, CodeIds, Unused
  <2>3. CASE CodeTick /\ UNCHANGED workers
    <3>1. CodeIds' = CodeIds /\ UNCHANGED codeReq
      BY <2>3 DEF CodeTick, CodeIds
    <3>2. \A c \in CodeIds : Unused(c)' => Unused(c)
      BY <2>1, <2>3, CodeFacts DEF CodeTick, Unused, CodeRow
    <3>3. QED BY <2>1, <2>3, <3>1, <3>2, FewerUnused
  <2>4. QED BY <2>1, <2>2, <2>3, OneCodeStep DEF LoginCodesNext
<1>3. CodesTyped /\ OneCodeInv => OneLiveCode
  <2>1. SUFFICES ASSUME OneCodeInv, Serial PROVE Cardinality({c \in CodeIds : Live(c)}) <= 1
    BY DEF OneLiveCode
  <2> DEFINE L == {c \in CodeIds : Live(c)}
  <2>2. CASE L = {}
    BY <2>2, FS_EmptySet
  <2>3. CASE L # {}
    <3>1. PICK c \in L : TRUE
      BY <2>3
    <3>2. L = {c}
      BY <2>1, <3>1 DEF OneCodeInv, Live
    <3>3. QED BY <3>2, FS_Singleton
  <2>4. QED BY <2>2, <2>3
<1>4. QED BY <1>1, <1>2, <1>3, PTL DEF LoginCodesSpec

-----------------------------------------------------------------------------
(* Password resets: type correctness *)

ResetTyped ==
  /\ workers \in WorkerSets /\ PasswordResetTypeOK
  /\ tokens \in Seq(TokenRow) /\ passwords \in Seq(Seq(0..MaxResetTime))

LEMMA ResetBounds ==
  /\ PASSWORD_RESET_MAX_ATTEMPTS \in Nat /\ PASSWORD_RESET_DAILY_LIMIT \in Nat
  /\ PASSWORD_RESET_DAILY_LIMIT >= 1
  /\ RESET_CODE_EXPIRY \in Nat /\ RESET_TOKEN_EXPIRY \in Nat /\ RESET_DAY \in Nat
  /\ MaxResetTime \in Nat /\ MaxResetCodes \in Nat
BY PasswordResetAssumption

LEMMA ResetFacts ==
  ASSUME ResetTyped
  PROVE  /\ tokens \in [TokenIds -> TokenRow] /\ passwords \in [TokenIds -> Seq(0..MaxResetTime)]
         /\ Len(tokens) \in Nat /\ TokenIds = 1..Len(tokens) /\ Len(passwords) = Len(tokens)
         /\ resetTime \in Nat /\ resetTime \in 0..MaxResetTime /\ TokenIds \subseteq Nat
         /\ resetReq \in [Worker -> ResetRequest] /\ workers \subseteq Worker
<1>1. Len(tokens) \in Nat /\ DOMAIN tokens = 1..Len(tokens) /\ tokens \in [1..Len(tokens) -> TokenRow]
  BY LenProperties DEF ResetTyped
<1>2. /\ Len(passwords) \in Nat /\ DOMAIN passwords = 1..Len(passwords)
      /\ passwords \in [1..Len(passwords) -> Seq(0..MaxResetTime)]
  BY LenProperties DEF ResetTyped
<1>3. DOMAIN passwords = DOMAIN tokens
  BY DEF ResetTyped, PasswordResetTypeOK, TokenIds
<1>4. resetTime \in 0..MaxResetTime /\ resetTime \in Nat /\ resetReq \in [Worker -> ResetRequest]
  BY ResetBounds DEF ResetTyped, PasswordResetTypeOK
<1>5. Len(passwords) = Len(tokens) /\ TokenIds = 1..Len(tokens) /\ TokenIds \subseteq Nat
  <2>1. 1..Len(passwords) = 1..Len(tokens)
    BY <1>1, <1>2, <1>3
  <2>2. Len(passwords) = Len(tokens)
    BY <1>1, <1>2, <2>1, SameInterval
  <2>3. QED BY <1>1, <2>2 DEF TokenIds
<1>6. workers \subseteq Worker
  BY WorkersCounted DEF ResetTyped
<1>7. QED BY <1>1, <1>2, <1>4, <1>5, <1>6

\* A row with one column set to a value of its type.
LEMMA TokenColumns ==
  ASSUME NEW row \in TokenRow, NEW n \in Nat, NEW k \in BOOLEAN
  PROVE  /\ row.attempts \in Nat /\ row.kept \in BOOLEAN
         /\ row.created_at \in Nat /\ row.expires_at \in Nat /\ row.reset_token_expires_at \in Nat
         /\ [row EXCEPT !.expires_at = n] \in TokenRow
         /\ [row EXCEPT !.attempts = n] \in TokenRow
         /\ [row EXCEPT !.kept = k] \in TokenRow
         /\ [row EXCEPT !.used = k] \in TokenRow
         /\ [row EXCEPT !.verified = k, !.reset_token_expires_at = n] \in TokenRow
BY DEF TokenRow

LEMMA ResetIdleType == ResetIdle \in ResetRequest /\ ResetIdle.pc = "idle"
BY DEF ResetIdle, ResetRequest

LEMMA ResetGotoType ==
  ASSUME ResetTyped, NEW q, NEW r \in ResetRequest, ResetGoto(q, r)
  PROVE  resetReq' \in [Worker -> ResetRequest]
BY ResetFacts DEF ResetGoto

LEMMA ResetEndsType ==
  ASSUME ResetTyped, NEW q, ResetEnds(q)
  PROVE  resetReq' \in [Worker -> ResetRequest]
BY ResetGotoType, ResetIdleType DEF ResetEnds

LEMMA PasswordTimes ==
  ASSUME NEW f, NEW I, f \in [I -> Seq(0..MaxResetTime)]
  PROVE  \A t \in I : \A n \in DOMAIN f[t] : f[t][n] \in 0..MaxResetTime
<1>1. \A t \in I : f[t] \in Seq(0..MaxResetTime)
  OBVIOUS
<1>2. \A t \in I : DOMAIN f[t] = 1..Len(f[t])
  BY <1>1, LenProperties
<1>3. QED BY <1>1, <1>2, ElementOfSeq

LEMMA ResetKept ==
  ASSUME ResetTyped, UNCHANGED <<workers, resetTime>>, resetReq' \in [Worker -> ResetRequest],
         tokens' \in [TokenIds -> TokenRow], passwords' \in [TokenIds -> Seq(0..MaxResetTime)]
  PROVE  ResetTyped' /\ TokenIds' = TokenIds
<1>1. tokens' \in Seq(TokenRow) /\ passwords' \in Seq(Seq(0..MaxResetTime))
  BY ResetFacts, SameIds DEF ResetTyped, TokenIds
<1>2. DOMAIN tokens' = TokenIds /\ DOMAIN passwords' = TokenIds
  OBVIOUS
<1>3. \A t \in TokenIds : \A n \in DOMAIN passwords'[t] : passwords'[t][n] \in 0..MaxResetTime
  BY PasswordTimes
<1>4. QED BY <1>1, <1>2, <1>3 DEF ResetTyped, PasswordResetTypeOK, TokenIds, TokenRow

\* What a request leaves: the older codes, those that it saw expired; and a new one.
LEMMA CreatedRows ==
  ASSUME ResetTyped, UNCHANGED workers, NEW q \in workers, CreateToken(q)
  PROVE  /\ ResetTyped'
         /\ TokenIds' = TokenIds \cup {Len(tokens) + 1} /\ Len(tokens) + 1 \notin TokenIds
         /\ \A t \in TokenIds :
              /\ tokens'[t] \in TokenRow /\ passwords'[t] = passwords[t]
              /\ tokens'[t] = tokens[t]
                 \/ /\ tokens'[t] = [tokens[t] EXCEPT !.expires_at = resetTime]
                    /\ tokens[t].expires_at > resetTime
         /\ tokens'[Len(tokens) + 1] =
              [created_at |-> resetTime, expires_at |-> resetTime + RESET_CODE_EXPIRY,
               attempts |-> 0, used |-> FALSE, verified |-> FALSE,
               reset_token_expires_at |-> 0, kept |-> TRUE]
         /\ passwords'[Len(tokens) + 1] = <<>>
<1> DEFINE old(t) == t <= resetReq[q].code /\ ~tokens[t].used /\ tokens[t].expires_at > resetTime
           older == [t \in TokenIds |-> IF old(t) THEN [tokens[t] EXCEPT !.expires_at = resetTime]
                                                  ELSE tokens[t]]
           row == [created_at |-> resetTime, expires_at |-> resetTime + RESET_CODE_EXPIRY,
                   attempts |-> 0, used |-> FALSE, verified |-> FALSE,
                   reset_token_expires_at |-> 0, kept |-> TRUE]
<1>1. \A t \in TokenIds : tokens[t] \in TokenRow
                          /\ [tokens[t] EXCEPT !.expires_at = resetTime] \in TokenRow
  BY ResetFacts, TokenColumns
<1>2. older \in [TokenIds -> TokenRow]
  BY <1>1
<1>3. older \in Seq(TokenRow) /\ Len(older) = Len(tokens)
  BY <1>2, SameIds DEF ResetTyped, TokenIds
<1>4. row \in TokenRow
  BY ResetFacts, ResetBounds DEF TokenRow
<1>5. tokens' = Append(older, row) /\ passwords' = Append(passwords, <<>>)
  BY DEF CreateToken
<1>6. \A t \in TokenIds :
        older[t] = tokens[t] \/ (older[t] = [tokens[t] EXCEPT !.expires_at = resetTime]
                                 /\ tokens[t].expires_at > resetTime)
  OBVIOUS
<1>7. /\ Len(tokens) \in Nat /\ TokenIds = 1..Len(tokens) /\ <<>> \in Seq(0..MaxResetTime)
      /\ passwords \in Seq(Seq(0..MaxResetTime)) /\ Len(passwords) = Len(tokens)
  BY ResetFacts, EmptySeq DEF ResetTyped
<1> HIDE DEF older, row, old
<1>8. /\ tokens' \in Seq(TokenRow) /\ Len(tokens') = Len(tokens) + 1
      /\ tokens'[Len(tokens) + 1] = row
      /\ \A t \in 1..Len(tokens) : tokens'[t] = older[t]
  BY <1>3, <1>4, <1>5, <1>7
<1>9. /\ passwords' \in Seq(Seq(0..MaxResetTime)) /\ Len(passwords') = Len(tokens) + 1
      /\ passwords'[Len(tokens) + 1] = <<>>
      /\ \A t \in 1..Len(tokens) : passwords'[t] = passwords[t]
  BY <1>5, <1>7
<1>10. DOMAIN tokens' = 1..Len(tokens) + 1 /\ DOMAIN passwords' = 1..Len(tokens) + 1
       /\ passwords' \in [1..Len(tokens) + 1 -> Seq(0..MaxResetTime)]
       /\ tokens' \in [1..Len(tokens) + 1 -> TokenRow]
  BY <1>8, <1>9, LenProperties
<1>11. ResetTyped'
  <2>1. Len(tokens) + 1 \in 0..MaxResetCodes
    BY <1>7, ResetBounds DEF CreateToken
  <2>2. resetReq' \in [Worker -> ResetRequest]
    BY ResetEndsType DEF CreateToken
  <2>3. \A t \in DOMAIN tokens' : \A n \in DOMAIN passwords'[t] : passwords'[t][n] \in 0..MaxResetTime
    BY <1>10, PasswordTimes
  <2>4. UNCHANGED resetTime
    BY DEF CreateToken
  <2>5. QED
    BY <1>8, <1>9, <1>10, <2>1, <2>2, <2>3, <2>4 DEF ResetTyped, PasswordResetTypeOK, TokenIds
<1>12. TokenIds' = TokenIds \cup {Len(tokens) + 1} /\ Len(tokens) + 1 \notin TokenIds
  BY <1>7, <1>10 DEF TokenIds
<1>13. \A t \in TokenIds : tokens'[t] \in TokenRow /\ passwords'[t] = passwords[t]
                           /\ tokens'[t] = older[t]
  BY <1>7, <1>8, <1>9, <1>10
<1>14. QED BY <1>6, <1>8, <1>9, <1>11, <1>12, <1>13 DEF row

LEMMA ResetStepTyped ==
  ASSUME ResetTyped, UNCHANGED workers, NEW q \in workers, ResetStep(q)
  PROVE  ResetTyped' /\ TokenIds \subseteq TokenIds'
<1> DEFINE r == resetReq[q]
<1>0. r \in ResetRequest
  BY ResetFacts
<1>1. ASSUME NEW s \in ResetRequest, ResetGoto(q, s), UNCHANGED <<tokens, passwords, resetTime>>
      PROVE  ResetTyped' /\ TokenIds \subseteq TokenIds'
  BY <1>1, ResetGotoType, ResetFacts, ResetKept
<1>2. CASE RequestReset(q)
  <2>1. [ResetIdle EXCEPT !.pc = "create", !.code = Len(tokens)] \in ResetRequest
    BY ResetFacts DEF ResetIdle, ResetRequest
  <2>2. QED BY <1>1, <1>2, <2>1 DEF RequestReset
<1>3. CASE ResetFails(q)
  BY <1>1, <1>3, ResetIdleType DEF ResetFails, ResetEnds
<1>4. ASSUME NEW typed \in 0..MaxResetCodes, VerifyReset(q, typed) \/ ResetPassword(q, typed)
      PROVE  ResetTyped' /\ TokenIds \subseteq TokenIds'
  <2>0. typed \in Nat
    BY ResetBounds
  <2>1. \A t \in TokenIds :
          [ResetIdle EXCEPT !.pc = "check", !.code = t, !.typed = typed] \in ResetRequest
    BY <2>0, ResetFacts DEF ResetIdle, ResetRequest
  <2>2. [ResetIdle EXCEPT !.pc = "reset", !.code = typed] \in ResetRequest
    BY <2>0 DEF ResetIdle, ResetRequest
  <2>3. CASE VerifyReset(q, typed)
    BY <1>1, <2>1, <2>3 DEF VerifyReset
  <2>4. CASE ResetPassword(q, typed)
    BY <1>1, <2>2, <2>4 DEF ResetPassword
  <2>5. QED BY <1>4, <2>3, <2>4
<1>5. CASE CheckReset(q)
  <2>1. [r EXCEPT !.pc = "right", !.code = r.typed] \in ResetRequest
        /\ [r EXCEPT !.pc = "wrong"] \in ResetRequest
    BY <1>0 DEF ResetRequest
  <2>2. QED BY <1>1, <1>5, <2>1 DEF CheckReset
<1>6. ASSUME NEW f, \A t \in TokenIds : f[t] \in TokenRow,
             tokens' = [tokens EXCEPT ![r.code] = f[r.code]], ResetEnds(q),
             UNCHANGED resetTime, passwords' \in [TokenIds -> Seq(0..MaxResetTime)]
      PROVE  ResetTyped' /\ TokenIds \subseteq TokenIds'
  <2>1. tokens' \in [TokenIds -> TokenRow]
    BY <1>6, ResetFacts
  <2>2. QED BY <1>6, <2>1, ResetEndsType, ResetKept
<1>7. CASE WrongReset(q)
  <2> DEFINE f == [t \in TokenIds |-> [tokens[t] EXCEPT !.attempts = @ + 1]]
  <2>1. \A t \in TokenIds : f[t] \in TokenRow
    <3>1. ASSUME NEW t \in TokenIds PROVE tokens[t] \in TokenRow /\ tokens[t].attempts + 1 \in Nat
      <4>1. tokens[t] \in TokenRow
        BY ResetFacts
      <4>2. QED BY <4>1 DEF TokenRow
    <3>2. QED BY <3>1, TokenColumns
  <2>2. tokens' \in [TokenIds -> TokenRow]
    <3>1. \A t \in TokenIds : tokens'[t] = IF t = r.code THEN f[t] ELSE tokens[t]
      BY <1>7, ResetFacts DEF WrongReset
    <3>2. tokens' \in [TokenIds -> {tokens'[t] : t \in TokenIds}]
      BY <1>7, ResetFacts DEF WrongReset
    <3>3. QED BY <2>1, <3>1, <3>2, ResetFacts
  <2>3. QED BY <1>7, <2>2, ResetEndsType, ResetFacts, ResetKept DEF WrongReset
<1>8. CASE RightReset(q)
  <2>1. \A t \in TokenIds : Verified(tokens[t]) \in TokenRow
    <3>1. resetTime + RESET_TOKEN_EXPIRY \in Nat
      BY ResetFacts, ResetBounds
    <3>2. QED BY <3>1, ResetFacts, TokenColumns DEF Verified
  <2>2. tokens' \in [TokenIds -> TokenRow]
    BY <1>8, <2>1, ResetFacts DEF RightReset
  <2>3. QED BY <1>8, <2>2, ResetEndsType, ResetFacts, ResetKept DEF RightReset
<1>9. CASE PasswordChanged(q)
  <2>1. tokens' \in [TokenIds -> TokenRow]
    BY <1>9, ResetFacts DEF PasswordChanged, TokenRow
  <2>2. \A t \in TokenIds : Append(passwords[t], resetTime) \in Seq(0..MaxResetTime)
    BY ResetFacts
  <2>3. passwords' \in [TokenIds -> Seq(0..MaxResetTime)]
    BY <1>9, <2>2, ResetFacts DEF PasswordChanged
  <2>4. QED BY <1>9, <2>1, <2>3, ResetEndsType, ResetKept DEF PasswordChanged
<1>10. CASE CleanupTokens(q)
  <2>1. tokens' \in [TokenIds -> TokenRow]
    <3>1. \A t \in TokenIds : tokens[t] \in TokenRow
            /\ (tokens[t].kept /\ tokens[t].expires_at + RESET_DAY >= resetTime) \in BOOLEAN
      BY ResetFacts, TokenColumns
    <3>2. \A t \in TokenIds :
            [tokens[t] EXCEPT !.kept = @ /\ tokens[t].expires_at + RESET_DAY >= resetTime] \in TokenRow
      BY <3>1, TokenColumns
    <3>3. QED BY <1>10, <3>2 DEF CleanupTokens
  <2>2. QED BY <1>10, <2>1, ResetFacts, ResetKept DEF CleanupTokens
<1>11. CASE CreateToken(q)
  BY <1>11, CreatedRows
<1>12. QED BY <1>2, <1>3, <1>4, <1>5, <1>7, <1>8, <1>9, <1>10, <1>11 DEF ResetStep

LEMMA ResetInitTyped ==
  ASSUME PasswordResetInit
  PROVE  ResetTyped /\ TokenIds = {}
<1>1. <<>> \in Seq(TokenRow) /\ <<>> \in Seq(Seq(0..MaxResetTime)) /\ DOMAIN <<>> = 1..0 /\ 1..0 = {}
  BY EmptySeq
<1>2. TokenIds = 1..0 /\ TokenIds = {} /\ DOMAIN passwords = TokenIds
  BY <1>1 DEF PasswordResetInit, TokenIds
<1>3. DOMAIN tokens \in {1..n : n \in 0..MaxResetCodes} /\ resetTime \in 0..MaxResetTime
  BY <1>2, ResetBounds DEF PasswordResetInit, TokenIds
<1>4. QED
  BY <1>1, <1>2, <1>3, ResetIdleType
     DEF PasswordResetInit, WorkersInit, ResetTyped, PasswordResetTypeOK

LEMMA ResetNextTyped ==
  ASSUME ResetTyped, [PasswordResetNext]_resetVars
  PROVE  ResetTyped'
<1>1. CASE UNCHANGED resetVars
  BY <1>1 DEF resetVars, ResetTyped, PasswordResetTypeOK, TokenIds
<1>2. CASE ResetTick /\ UNCHANGED workers
  <2>1. resetTime' \in 0..MaxResetTime
    BY <1>2, ResetBounds DEF ResetTick, ResetTyped, PasswordResetTypeOK
  <2>2. QED BY <1>2, <2>1 DEF ResetTick, ResetTyped, PasswordResetTypeOK, TokenIds
<1>3. QED BY <1>1, <1>2, ResetStepTyped DEF PasswordResetNext

\* The variables of the password resets hold values of their types, for every
\* number of workers and every limit.
THEOREM ResetTypeCorrect == PasswordResetSpec => []PasswordResetTypeOK
<1>1. PasswordResetInit => ResetTyped
  BY ResetInitTyped
<1>2. ResetTyped /\ [PasswordResetNext]_resetVars => ResetTyped'
  BY ResetNextTyped
<1>3. ResetTyped => PasswordResetTypeOK
  BY DEF ResetTyped
<1>4. QED BY <1>1, <1>2, <1>3, PTL DEF PasswordResetSpec

-----------------------------------------------------------------------------
(* Password resets: what rows and handlers keep to *)

\* A row's times.  A verified token ends in time because its code was good when
\* it was verified, and a row younger than a day is kept.
RowSound(t) ==
  LET row == tokens[t]
  IN /\ row.created_at <= resetTime /\ row.created_at <= row.expires_at
     /\ row.expires_at <= row.created_at + RESET_CODE_EXPIRY
     /\ row.verified =>
          row.reset_token_expires_at < row.created_at + RESET_CODE_EXPIRY + RESET_TOKEN_EXPIRY
     /\ row.created_at + RESET_DAY >= resetTime => row.kept
RowsInv == \A t \in TokenIds : RowSound(t)

\* What a handler found out is still so: no time passes while it runs.
RequestSound(q) ==
  LET r == resetReq[q]
  IN /\ r.pc \in {"check", "wrong", "right", "reset"} => r.code \in TokenIds
     /\ r.pc = "check" => r.typed \in TokenIds \cup {0}
     /\ r.pc = "right" => resetTime < tokens[r.code].created_at + RESET_CODE_EXPIRY
     /\ r.pc = "reset" =>
          resetTime < tokens[r.code].created_at + RESET_CODE_EXPIRY + RESET_TOKEN_EXPIRY
RequestsInv == \A q \in workers : RequestSound(q)

LEMMA TokenFields ==
  ASSUME ResetTyped, NEW t \in TokenIds
  PROVE  /\ tokens[t] \in TokenRow
         /\ tokens[t].created_at \in Nat /\ tokens[t].expires_at \in Nat
         /\ tokens[t].reset_token_expires_at \in Nat
         /\ tokens[t].kept \in BOOLEAN /\ tokens[t].used \in BOOLEAN /\ tokens[t].verified \in BOOLEAN
BY ResetFacts DEF TokenRow

\* What a step of a handler may do to a row that is there.
RowMoves(old, new, now, exchanged) ==
  /\ new.created_at = old.created_at
  /\ old.used => new.used
  /\ \/ new.expires_at = old.expires_at
     \/ new.expires_at = now /\ old.expires_at > now
  /\ old.kept /\ old.expires_at + RESET_DAY >= now => new.kept
  /\ new.verified =>
       \/ old.verified /\ new.reset_token_expires_at = old.reset_token_expires_at
       \/ exchanged /\ new.reset_token_expires_at = now + RESET_TOKEN_EXPIRY

LEMMA RowMovesInKind ==
  ASSUME NEW row \in TokenRow, NEW now \in Nat
  PROVE  /\ RowMoves(row, row, now, FALSE)
         /\ row.expires_at > now => RowMoves(row, [row EXCEPT !.expires_at = now], now, FALSE)
         /\ RowMoves(row, [row EXCEPT !.attempts = @ + 1], now, FALSE)
         /\ RowMoves(row, [row EXCEPT !.used = TRUE], now, FALSE)
         /\ RowMoves(row, [row EXCEPT !.verified = TRUE,
                                      !.reset_token_expires_at = now + RESET_TOKEN_EXPIRY], now, TRUE)
         /\ RowMoves(row, [row EXCEPT !.kept = @ /\ row.expires_at + RESET_DAY >= now], now, FALSE)
<1> USE DEF TokenRow
<1>1. RowMoves(row, row, now, FALSE)
  BY DEF RowMoves
<1>2. row.expires_at > now => RowMoves(row, [row EXCEPT !.expires_at = now], now, FALSE)
  BY DEF RowMoves
<1>3. RowMoves(row, [row EXCEPT !.attempts = @ + 1], now, FALSE)
  BY DEF RowMoves
<1>4. RowMoves(row, [row EXCEPT !.used = TRUE], now, FALSE)
  BY DEF RowMoves
<1>5. RowMoves(row, [row EXCEPT !.verified = TRUE,
                                !.reset_token_expires_at = now + RESET_TOKEN_EXPIRY], now, TRUE)
  BY DEF RowMoves
<1>6. RowMoves(row, [row EXCEPT !.kept = @ /\ row.expires_at + RESET_DAY >= now], now, FALSE)
  BY DEF RowMoves
<1>7. QED BY <1>1, <1>2, <1>3, <1>4, <1>5, <1>6

\* A step of a handler moves a row in one of these ways; only the handler that was
\* given the right code gives out a token for it.
LEMMA RowsAfter ==
  ASSUME ResetTyped, UNCHANGED workers, NEW q \in workers, ResetStep(q), NEW t \in TokenIds
  PROVE  /\ t \in TokenIds' /\ tokens'[t] \in TokenRow /\ UNCHANGED resetTime
         /\ RowMoves(tokens[t], tokens'[t], resetTime, RightReset(q) /\ resetReq[q].code = t)
<1> DEFINE row == tokens[t]
           mine == RightReset(q) /\ resetReq[q].code = t
<1>0. row \in TokenRow /\ ResetTyped' /\ t \in TokenIds' /\ tokens'[t] \in TokenRow /\ resetTime \in Nat
  <2>1. ResetTyped' /\ t \in TokenIds'
    BY ResetStepTyped
  <2>2. tokens'[t] \in TokenRow
    BY <2>1 DEF ResetTyped, PasswordResetTypeOK
  <2>3. QED BY <2>1, <2>2, TokenFields, ResetFacts
<1>1. ASSUME NEW new, RowMoves(row, new, resetTime, FALSE) PROVE RowMoves(row, new, resetTime, mine)
  BY <1>1 DEF RowMoves
<1>2. CASE RequestReset(q) \/ ResetFails(q) \/ CheckReset(q)
           \/ \E typed \in 0..MaxResetCodes : VerifyReset(q, typed) \/ ResetPassword(q, typed)
  <2>1. UNCHANGED <<tokens, resetTime>>
    BY <1>2 DEF RequestReset, ResetFails, CheckReset, VerifyReset, ResetPassword
  <2>2. QED BY <1>0, <1>1, <2>1, RowMovesInKind
<1>3. CASE CreateToken(q)
  <2>1. tokens'[t] = row \/ (tokens'[t] = [row EXCEPT !.expires_at = resetTime]
                             /\ row.expires_at > resetTime)
    BY <1>3, CreatedRows
  <2>2. UNCHANGED resetTime
    BY <1>3 DEF CreateToken
  <2>3. QED BY <1>0, <1>1, <2>1, <2>2, RowMovesInKind
<1>4. CASE WrongReset(q)
  <2>1. tokens'[t] = row \/ tokens'[t] = [row EXCEPT !.attempts = @ + 1]
    BY <1>4, ResetFacts DEF WrongReset
  <2>2. UNCHANGED resetTime
    BY <1>4 DEF WrongReset
  <2>3. QED BY <1>0, <1>1, <2>1, <2>2, RowMovesInKind
<1>5. CASE RightReset(q)
  <2>1. tokens'[t] = row \/ (tokens'[t] = Verified(row) /\ resetReq[q].code = t)
    BY <1>5, ResetFacts DEF RightReset
  <2>2. UNCHANGED resetTime
    BY <1>5 DEF RightReset
  <2>3. CASE tokens'[t] = row
    BY <1>0, <1>1, <2>2, <2>3, RowMovesInKind
  <2>4. CASE tokens'[t] = Verified(row) /\ resetReq[q].code = t
    <3>1. RowMoves(row, Verified(row), resetTime, TRUE)
      BY <1>0, RowMovesInKind DEF Verified
    <3>2. QED BY <1>0, <1>5, <2>2, <2>4, <3>1 DEF RowMoves
  <2>5. QED BY <2>1, <2>3, <2>4
<1>6. CASE PasswordChanged(q)
  <2>1. tokens'[t] = row \/ tokens'[t] = [row EXCEPT !.used = TRUE]
    BY <1>6, ResetFacts DEF PasswordChanged
  <2>2. UNCHANGED resetTime
    BY <1>6 DEF PasswordChanged
  <2>3. QED BY <1>0, <1>1, <2>1, <2>2, RowMovesInKind
<1>7. CASE CleanupTokens(q)
  <2>1. tokens'[t] = [row EXCEPT !.kept = @ /\ row.expires_at + RESET_DAY >= resetTime]
    BY <1>7, ResetFacts DEF CleanupTokens
  <2>2. UNCHANGED resetTime
    BY <1>7 DEF CleanupTokens
  <2>3. QED BY <1>0, <1>1, <2>1, <2>2, RowMovesInKind
<1>8. QED BY <1>2, <1>3, <1>4, <1>5, <1>6, <1>7 DEF ResetStep

\* Only a request adds a row.
LEMMA ResetNewRow ==
  ASSUME ResetTyped, NEW q \in workers, ResetStep(q), TokenIds' # TokenIds
  PROVE  CreateToken(q)
<1>1. CASE WrongReset(q) \/ RightReset(q) \/ PasswordChanged(q)
  BY <1>1, ResetFacts DEF WrongReset, RightReset, PasswordChanged, TokenIds
<1>2. CASE CleanupTokens(q)
  BY <1>2 DEF CleanupTokens, TokenIds
<1>3. CASE RequestReset(q) \/ ResetFails(q) \/ CheckReset(q)
           \/ \E typed \in 0..MaxResetCodes : VerifyReset(q, typed) \/ ResetPassword(q, typed)
  BY <1>3 DEF RequestReset, ResetFails, CheckReset, VerifyReset, ResetPassword, TokenIds
<1>4. QED BY <1>1, <1>2, <1>3 DEF ResetStep

LEMMA RowsStep ==
  ASSUME ResetTyped, RowsInv, RequestsInv, UNCHANGED workers, NEW q \in workers, ResetStep(q)
  PROVE  RowsInv'
<1>1. ASSUME NEW t \in TokenIds PROVE RowSound(t)'
  <2> DEFINE mine == RightReset(q) /\ resetReq[q].code = t
  <2>1. RowSound(t)
    BY DEF RowsInv
  <2>2. /\ RowMoves(tokens[t], tokens'[t], resetTime, mine)
        /\ UNCHANGED resetTime /\ tokens'[t] \in TokenRow
    BY RowsAfter
  <2>3. mine => resetTime < tokens[t].created_at + RESET_CODE_EXPIRY
    BY DEF RightReset, ResetAt, RequestsInv, RequestSound
  <2> HIDE DEF mine
  <2>4. /\ tokens[t].created_at \in Nat /\ tokens[t].expires_at \in Nat /\ resetTime \in Nat
        /\ tokens'[t].created_at = tokens[t].created_at
        /\ tokens'[t].reset_token_expires_at \in Nat /\ tokens[t].reset_token_expires_at \in Nat
    BY <2>2, TokenFields, ResetFacts DEF RowMoves, TokenRow
  <2>5. /\ tokens'[t].created_at <= resetTime /\ tokens'[t].created_at <= tokens'[t].expires_at
        /\ tokens'[t].expires_at <= tokens'[t].created_at + RESET_CODE_EXPIRY
    BY <2>1, <2>2, <2>4, ResetBounds DEF RowSound, RowMoves
  <2>6. tokens'[t].verified =>
          tokens'[t].reset_token_expires_at
            < tokens'[t].created_at + RESET_CODE_EXPIRY + RESET_TOKEN_EXPIRY
    BY <2>1, <2>2, <2>3, <2>4, ResetBounds DEF RowSound, RowMoves
  <2>7. tokens'[t].created_at + RESET_DAY >= resetTime => tokens'[t].kept
    BY <2>1, <2>2, <2>4, ResetBounds DEF RowSound, RowMoves
  <2>8. QED BY <2>2, <2>5, <2>6, <2>7 DEF RowSound
<1>2. ASSUME NEW t \in TokenIds', t \notin TokenIds PROVE RowSound(t)'
  <2>1. CreateToken(q)
    BY <1>2, ResetNewRow
  <2>2. t = Len(tokens) + 1 /\ UNCHANGED resetTime
    BY <1>2, <2>1, CreatedRows DEF CreateToken
  <2>3. /\ tokens'[t].created_at = resetTime /\ tokens'[t].expires_at = resetTime + RESET_CODE_EXPIRY
        /\ ~tokens'[t].verified /\ tokens'[t].kept
    BY <2>1, <2>2, CreatedRows
  <2>4. QED BY <2>2, <2>3, ResetFacts, ResetBounds DEF RowSound
<1>3. QED BY <1>1, <1>2 DEF RowsInv

\* A step of a handler leaves the other handlers alone.
LEMMA OtherResets ==
  ASSUME ResetTyped, NEW q \in workers, ResetStep(q), NEW p \in workers \ {q}
  PROVE  resetReq'[p] = resetReq[p]
<1>1. ASSUME NEW r, ResetGoto(q, r) PROVE resetReq'[p] = resetReq[p]
  BY <1>1, ResetFacts DEF ResetGoto
<1>2. ResetEnds(q) => resetReq'[p] = resetReq[p]
  BY <1>1 DEF ResetEnds
<1>3. CASE RequestReset(q) \/ CheckReset(q)
           \/ \E typed \in 0..MaxResetCodes : VerifyReset(q, typed) \/ ResetPassword(q, typed)
  BY <1>1, <1>3 DEF RequestReset, CheckReset, VerifyReset, ResetPassword
<1>4. CASE CreateToken(q) \/ ResetFails(q) \/ WrongReset(q) \/ RightReset(q) \/ PasswordChanged(q)
  BY <1>2, <1>4 DEF CreateToken, ResetFails, WrongReset, RightReset, PasswordChanged
<1>5. CASE CleanupTokens(q)
  BY <1>5 DEF CleanupTokens
<1>6. QED BY <1>3, <1>4, <1>5 DEF ResetStep

LEMMA AfterResetGoto ==
  ASSUME ResetTyped, NEW q \in workers, NEW r, ResetGoto(q, r)
  PROVE  resetReq'[q] = r
BY ResetFacts DEF ResetGoto

LEMMA RequestsStep ==
  ASSUME ResetTyped, RowsInv, RequestsInv, UNCHANGED workers, NEW q \in workers, ResetStep(q)
  PROVE  RequestsInv'
<1>1. UNCHANGED resetTime /\ \A t \in TokenIds : t \in TokenIds' /\ tokens'[t].created_at = tokens[t].created_at
  <2>1. UNCHANGED resetTime
    BY DEF ResetStep, RequestReset, CreateToken, VerifyReset, CheckReset, WrongReset, RightReset,
           ResetPassword, PasswordChanged, ResetFails, CleanupTokens
  <2>2. QED BY <2>1, RowsAfter DEF RowMoves
<1>2. ASSUME NEW p \in workers \ {q} PROVE RequestSound(p)'
  <2>1. resetReq'[p] = resetReq[p] /\ RequestSound(p)
    BY OtherResets DEF RequestsInv
  <2>2. QED BY <1>1, <2>1 DEF RequestSound
<1>3. RequestSound(q)'
  <2>1. ASSUME resetReq'[q] = resetReq[q] PROVE RequestSound(q)'
    <3>1. RequestSound(q)
      BY DEF RequestsInv
    <3>2. QED BY <1>1, <2>1, <3>1 DEF RequestSound
  <2>2. ASSUME ResetEnds(q) PROVE RequestSound(q)'
    <3>1. resetReq'[q].pc = "idle"
      BY <2>2, AfterResetGoto, ResetIdleType DEF ResetEnds
    <3>2. QED BY <3>1 DEF RequestSound
  <2>3. CASE RequestReset(q)
    <3>1. resetReq'[q].pc = "create"
      BY <2>3, AfterResetGoto DEF RequestReset, ResetIdle
    <3>2. QED BY <3>1 DEF RequestSound
  <2>4. ASSUME NEW typed \in 0..MaxResetCodes, VerifyReset(q, typed) PROVE RequestSound(q)'
    <3>1. PICK t \in TokenIds :
            ResetGoto(q, [ResetIdle EXCEPT !.pc = "check", !.code = t, !.typed = typed])
      BY <2>4 DEF VerifyReset
    <3>2. resetReq'[q] = [ResetIdle EXCEPT !.pc = "check", !.code = t, !.typed = typed]
      BY <3>1, AfterResetGoto
    <3>3. resetReq'[q].pc = "check" /\ resetReq'[q].code = t /\ resetReq'[q].typed = typed
      BY <3>2 DEF ResetIdle
    <3>4. typed \in TokenIds \cup {0}
      BY <2>4 DEF VerifyReset
    <3>5. QED BY <1>1, <3>1, <3>3, <3>4 DEF RequestSound
  <2>5. CASE CheckReset(q)
    <3> DEFINE r == resetReq[q]
    <3>1. RequestSound(q) /\ r.pc = "check" /\ r \in ResetRequest
      BY <2>5, ResetFacts DEF RequestsInv, CheckReset, ResetAt
    <3>2. CASE r.typed # 0 /\ CodeGood(r.typed)
      <4>1. resetReq'[q] = [r EXCEPT !.pc = "right", !.code = r.typed]
        BY <2>5, <3>2, AfterResetGoto DEF CheckReset
      <4>2. resetReq'[q].pc = "right" /\ resetReq'[q].code = r.typed
        BY <3>1, <4>1 DEF ResetRequest
      <4>3. r.typed \in TokenIds
        BY <3>1, <3>2 DEF RequestSound
      <4>4. RowSound(r.typed) /\ tokens[r.typed].expires_at > resetTime
        BY <3>2, <4>3 DEF RowsInv, CodeGood
      <4>5. resetTime < tokens[r.typed].created_at + RESET_CODE_EXPIRY
        BY <4>3, <4>4, TokenFields, ResetFacts, ResetBounds DEF RowSound
      <4>6. QED BY <1>1, <4>2, <4>3, <4>5 DEF RequestSound
    <3>3. CASE ~(r.typed # 0 /\ CodeGood(r.typed))
      <4>1. resetReq'[q] = [r EXCEPT !.pc = "wrong"]
        BY <2>5, <3>3, AfterResetGoto DEF CheckReset
      <4>2. resetReq'[q].pc = "wrong" /\ resetReq'[q].code = r.code
        BY <3>1, <4>1 DEF ResetRequest
      <4>3. QED BY <1>1, <3>1, <4>2 DEF RequestSound
    <3>4. QED BY <3>2, <3>3
  <2>6. ASSUME NEW t \in 0..MaxResetCodes, ResetPassword(q, t) PROVE RequestSound(q)'
    <3>1. t \in TokenIds /\ TokenGood(t)
          /\ resetReq'[q] = [ResetIdle EXCEPT !.pc = "reset", !.code = t]
      BY <2>6, AfterResetGoto DEF ResetPassword
    <3>2. resetReq'[q].pc = "reset" /\ resetReq'[q].code = t
      BY <3>1 DEF ResetIdle
    <3>3. RowSound(t) /\ tokens[t].verified /\ tokens[t].reset_token_expires_at > resetTime
      BY <3>1 DEF RowsInv, TokenGood
    <3>4. resetTime < tokens[t].created_at + RESET_CODE_EXPIRY + RESET_TOKEN_EXPIRY
      BY <3>1, <3>3, TokenFields, ResetFacts, ResetBounds DEF RowSound
    <3>5. QED BY <1>1, <3>1, <3>2, <3>4 DEF RequestSound
  <2>7. CASE CleanupTokens(q)
    BY <2>1, <2>7 DEF CleanupTokens
  <2>8. QED BY <2>2, <2>3, <2>4, <2>5, <2>6, <2>7
            DEF ResetStep, CreateToken, WrongReset, RightReset, PasswordChanged, ResetFails
<1>4. QED BY <1>2, <1>3 DEF RequestsInv

-----------------------------------------------------------------------------
(* Password resets: passwords set with one token *)

\* The handlers that found the row's token unused and have not stored a password.
Resetting(t) == {q \in workers : resetReq[q].pc = "reset" /\ resetReq[q].code = t}
\* Passwords stored and about to be: no more than there are workers.
PasswordsOf(t) ==
  /\ Len(passwords[t]) + Cardinality(Resetting(t)) <= Cardinality(workers)
  /\ ~tokens[t].used => Len(passwords[t]) = 0
  /\ \A n \in DOMAIN passwords[t] :
       passwords[t][n] < tokens[t].created_at + RESET_CODE_EXPIRY + RESET_TOKEN_EXPIRY
PasswordsInv == \A t \in TokenIds : PasswordsOf(t)

\* A row whose passwords and handlers don't change, or change for fewer handlers.
LEMMA PasswordsKept ==
  ASSUME ResetTyped, UNCHANGED workers, NEW t \in TokenIds, PasswordsOf(t),
         passwords'[t] = passwords[t], tokens'[t].created_at = tokens[t].created_at,
         tokens[t].used => tokens'[t].used, Resetting(t)' \subseteq Resetting(t)
  PROVE  PasswordsOf(t)'
<1>1. Resetting(t) \in SUBSET workers
  BY DEF Resetting
<1>2. IsFiniteSet(Resetting(t)) /\ workers \in WorkerSets
  BY <1>1, SomeWorkers DEF ResetTyped
<1> DEFINE k == Cardinality(Resetting(t))
           l == Cardinality(Resetting(t)')
           w == Cardinality(workers)
           n == Len(passwords[t])
<1>3. l \in Nat /\ k \in Nat /\ l <= k
  BY <1>2, NoMore
<1>4. n \in Nat /\ w \in Nat
  BY <1>2, WorkersCounted, ResetFacts
<1>5. n + k <= w
  BY DEF PasswordsOf
<1> HIDE DEF k, l, w, n
<1>6. n + l <= w
  BY <1>3, <1>4, <1>5
<1>7. Len(passwords[t])' + Cardinality(Resetting(t))' <= Cardinality(workers)'
  BY <1>6 DEF n, l, w
<1>8. QED BY <1>7 DEF PasswordsOf

LEMMA PasswordsStep ==
  ASSUME ResetTyped, RequestsInv, PasswordsInv, UNCHANGED workers, NEW q \in workers, ResetStep(q)
  PROVE  PasswordsInv'
<1>0. workers \in WorkerSets /\ q \in Worker /\ resetReq[q] \in ResetRequest
  BY ResetFacts DEF ResetTyped
<1>1. \A t \in TokenIds : /\ t \in TokenIds' /\ tokens'[t].created_at = tokens[t].created_at
                          /\ tokens[t].used => tokens'[t].used
  BY RowsAfter DEF RowMoves
<1>2. ASSUME NEW t \in TokenIds, resetReq'[q].pc # "reset" \/ resetReq'[q].code # t
      PROVE  Resetting(t)' \subseteq Resetting(t) /\ q \notin Resetting(t)'
  BY <1>2, OtherResets DEF Resetting
<1>3. CASE CreateToken(q)
  <2> DEFINE c == Len(tokens) + 1
  <2>0. resetReq'[q].pc = "idle"
    BY <1>3, AfterResetGoto, ResetIdleType DEF CreateToken, ResetEnds
  <2>1. ASSUME NEW t \in TokenIds PROVE PasswordsOf(t)'
    BY <1>1, <1>2, <1>3, <2>0, <2>1, CreatedRows, PasswordsKept DEF PasswordsInv
  <2>2. ASSUME NEW t, t = c PROVE PasswordsOf(t)'
    <3>1. t \notin TokenIds /\ passwords'[t] = <<>>
      BY <1>3, <2>2, CreatedRows
    <3>2. Resetting(t)' \in SUBSET workers
      BY DEF Resetting
    <3>3. Cardinality(Resetting(t)') <= Cardinality(workers) /\ Cardinality(Resetting(t)') \in Nat
      BY <1>0, <3>2, SomeWorkers
    <3>4. Len(passwords'[t]) = 0 /\ DOMAIN passwords'[t] = {}
      BY <3>1, EmptySeq
    <3>5. QED BY <3>3, <3>4 DEF PasswordsOf
  <2>3. QED BY <1>3, <2>1, <2>2, CreatedRows DEF PasswordsInv
<1>4. ASSUME TokenIds' = TokenIds, \A t \in TokenIds : PasswordsOf(t)'
      PROVE  PasswordsInv'
  BY <1>4 DEF PasswordsInv
<1>5. ~CreateToken(q) => TokenIds' = TokenIds
  BY ResetNewRow
<1>6. ASSUME UNCHANGED passwords, ~CreateToken(q), resetReq'[q].pc # "reset" PROVE PasswordsInv'
  BY <1>1, <1>2, <1>4, <1>5, <1>6, PasswordsKept DEF PasswordsInv
<1>7. CASE RequestReset(q)
  <2>1. resetReq'[q].pc = "create" /\ UNCHANGED <<passwords, tokens>>
    BY <1>7, AfterResetGoto DEF RequestReset, ResetIdle
  <2>2. ASSUME NEW t \in TokenIds PROVE PasswordsOf(t)'
    BY <1>1, <1>2, <2>1, PasswordsKept DEF PasswordsInv
  <2>3. QED BY <1>4, <2>1, <2>2 DEF TokenIds
<1>8. CASE CheckReset(q)
  <2>1. UNCHANGED <<passwords, tokens>> /\ resetReq'[q].pc # "reset"
    BY <1>0, <1>8, AfterResetGoto DEF CheckReset, ResetRequest
  <2>2. ASSUME NEW t \in TokenIds PROVE PasswordsOf(t)'
    BY <1>1, <1>2, <2>1, PasswordsKept DEF PasswordsInv
  <2>3. QED BY <1>4, <2>1, <2>2 DEF TokenIds
<1>9. ASSUME NEW typed \in 0..MaxResetCodes, VerifyReset(q, typed) PROVE PasswordsInv'
  <2>1. UNCHANGED <<passwords, tokens>>
    BY <1>9 DEF VerifyReset
  <2>2. PICK t : resetReq'[q] = [ResetIdle EXCEPT !.pc = "check", !.code = t, !.typed = typed]
    BY <1>9, AfterResetGoto DEF VerifyReset
  <2>3. resetReq'[q].pc # "reset"
    BY <2>2 DEF ResetIdle
  <2>4. ASSUME NEW u \in TokenIds PROVE PasswordsOf(u)'
    BY <1>1, <1>2, <2>1, <2>3, PasswordsKept DEF PasswordsInv
  <2>5. QED BY <1>4, <2>1, <2>4 DEF TokenIds
<1>10. CASE WrongReset(q) \/ RightReset(q) \/ ResetFails(q)
  <2>1. UNCHANGED passwords /\ ResetEnds(q)
    BY <1>10 DEF WrongReset, RightReset, ResetFails
  <2>2. resetReq'[q].pc = "idle"
    BY <2>1, AfterResetGoto, ResetIdleType DEF ResetEnds
  <2>3. TokenIds' = TokenIds
    BY <1>10, ResetFacts DEF WrongReset, RightReset, ResetFails, TokenIds
  <2>4. ASSUME NEW t \in TokenIds PROVE PasswordsOf(t)'
    BY <1>1, <1>2, <2>1, <2>2, PasswordsKept DEF PasswordsInv
  <2>5. QED BY <1>4, <2>3, <2>4
<1>11. CASE CleanupTokens(q)
  <2>1. UNCHANGED <<passwords, resetReq>> /\ TokenIds' = TokenIds
    BY <1>11 DEF CleanupTokens, TokenIds
  <2>2. \A t \in TokenIds : Resetting(t)' = Resetting(t)
    BY <2>1 DEF Resetting
  <2>3. ASSUME NEW t \in TokenIds PROVE PasswordsOf(t)'
    BY <1>1, <2>1, <2>2, PasswordsKept DEF PasswordsInv
  <2>4. QED BY <1>4, <2>1, <2>3
<1>12. ASSUME NEW d \in 0..MaxResetCodes, ResetPassword(q, d) PROVE PasswordsInv'
  <2>1. d \in TokenIds /\ ~tokens[d].used /\ UNCHANGED <<passwords, tokens>>
        /\ resetReq'[q] = [ResetIdle EXCEPT !.pc = "reset", !.code = d]
    BY <1>12, AfterResetGoto DEF ResetPassword, TokenGood
  <2>2. resetReq'[q].pc = "reset" /\ resetReq'[q].code = d
    BY <2>1 DEF ResetIdle
  <2>3. ASSUME NEW t \in TokenIds PROVE PasswordsOf(t)'
    <3>1. CASE t # d
      BY <1>1, <1>2, <2>1, <2>2, <3>1, PasswordsKept DEF PasswordsInv
    <3>2. CASE t = d
      <4>1. PasswordsOf(d) /\ Len(passwords[d]) = 0 /\ d \in TokenIds
        BY <2>1 DEF PasswordsInv, PasswordsOf
      <4>2. Resetting(d)' \in SUBSET workers
        BY DEF Resetting
      <4>3. Cardinality(Resetting(d)') <= Cardinality(workers) /\ Cardinality(Resetting(d)') \in Nat
        BY <1>0, <4>2, SomeWorkers
      <4>4. QED BY <2>1, <3>2, <4>1, <4>3 DEF PasswordsOf
    <3>3. QED BY <3>1, <3>2
  <2>4. QED BY <1>4, <2>1, <2>3 DEF TokenIds
<1>13. CASE PasswordChanged(q)
  <2>0. PICK d : d = resetReq[q].code
    OBVIOUS
  <2>1. d \in TokenIds /\ resetReq[q].pc = "reset" /\ ResetEnds(q) /\ UNCHANGED resetTime
        /\ resetTime < tokens[d].created_at + RESET_CODE_EXPIRY + RESET_TOKEN_EXPIRY
    BY <1>13, <2>0 DEF PasswordChanged, ResetAt, RequestsInv, RequestSound
  <2>2. resetReq'[q].pc = "idle"
    BY <2>1, AfterResetGoto, ResetIdleType DEF ResetEnds
  <2>3. TokenIds' = TokenIds
    BY <1>13, ResetFacts DEF PasswordChanged, TokenIds
  <2>4. \A t \in TokenIds : passwords'[t] = IF t = d THEN Append(passwords[t], resetTime) ELSE passwords[t]
    BY <1>13, <2>0, ResetFacts DEF PasswordChanged
  <2>5. ASSUME NEW t \in TokenIds PROVE PasswordsOf(t)'
    <3>1. CASE t # d
      BY <1>1, <1>2, <2>2, <2>4, <3>1, PasswordsKept DEF PasswordsInv
    <3>2. CASE t = d
      <4> DEFINE n == Len(passwords[d])
                 k == Cardinality(Resetting(d))
                 l == Cardinality(Resetting(d)')
                 w == Cardinality(workers)
      <4>1. passwords[d] \in Seq(0..MaxResetTime) /\ n \in Nat /\ resetTime \in 0..MaxResetTime
        BY <2>1, ResetFacts
      <4>2. passwords'[d] = Append(passwords[d], resetTime) /\ PasswordsOf(d)
        BY <2>1, <2>4 DEF PasswordsInv
      <4>3. /\ Len(passwords'[d]) = n + 1 /\ DOMAIN passwords'[d] = 1..n + 1
            /\ DOMAIN passwords[d] = 1..n
            /\ passwords'[d][n + 1] = resetTime
            /\ \A m \in 1..n : passwords'[d][m] = passwords[d][m]
        BY <4>1, <4>2
      <4>4. q \in Resetting(d) /\ Resetting(d) \in SUBSET workers
        BY <2>0, <2>1 DEF Resetting
      <4>5. IsFiniteSet(Resetting(d)) /\ k \in Nat
        BY <1>0, <4>4, SomeWorkers
      <4>6. Resetting(d)' \subseteq Resetting(d) /\ q \notin Resetting(d)'
        BY <1>2, <2>1, <2>2
      <4>7. l \in Nat /\ l + 1 <= k
        BY <4>4, <4>5, <4>6, OneLess
      <4>8. n + k <= w /\ w \in Nat
        BY <1>0, <4>2, WorkersCounted DEF PasswordsOf
      <4>9. n + 1 + l <= w
        <5> HIDE DEF n, k, l, w
        <5> QED BY <4>1, <4>5, <4>7, <4>8
      <4>10. Len(passwords'[d]) + Cardinality(Resetting(d)') <= Cardinality(workers)
        BY <4>3, <4>9
      <4>11. tokens'[d].used
        BY <1>13, <2>0, <2>1, ResetFacts DEF PasswordChanged, TokenRow
      <4>12. \A m \in DOMAIN passwords'[d] :
               passwords'[d][m] < tokens'[d].created_at + RESET_CODE_EXPIRY + RESET_TOKEN_EXPIRY
        <5>1. tokens'[d].created_at = tokens[d].created_at
          BY <1>1, <2>1
        <5>2. \A m \in 1..n :
                passwords[d][m] < tokens[d].created_at + RESET_CODE_EXPIRY + RESET_TOKEN_EXPIRY
          BY <4>2, <4>3 DEF PasswordsOf
        <5>3. QED BY <2>1, <4>1, <4>3, <5>1, <5>2
      <4>13. ~tokens'[t].used => Len(passwords'[t]) = 0
        BY <3>2, <4>11
      <4>14. QED BY <3>2, <4>10, <4>12, <4>13 DEF PasswordsOf
    <3>3. QED BY <3>1, <3>2
  <2>6. QED BY <1>4, <2>3, <2>5
<1>14. QED BY <1>3, <1>7, <1>8, <1>9, <1>10, <1>11, <1>12, <1>13 DEF ResetStep

\* Rows and handlers stay sound while time passes and handlers step.
ResetSound == ResetTyped /\ RowsInv /\ RequestsInv

LEMMA ResetInitSound ==
  ASSUME PasswordResetInit
  PROVE  ResetSound /\ TokenIds = {} /\ \A q \in workers : resetReq[q].pc = "idle"
<1>1. ResetTyped /\ TokenIds = {}
  BY ResetInitTyped
<1>2. \A q \in workers : resetReq[q].pc = "idle"
  BY <1>1, ResetFacts, ResetIdleType DEF PasswordResetInit
<1>3. QED BY <1>1, <1>2 DEF ResetSound, RowsInv, RequestsInv, RequestSound

LEMMA ResetNextSound ==
  ASSUME ResetSound, [PasswordResetNext]_resetVars
  PROVE  ResetSound'
<1>0. ResetTyped /\ RowsInv /\ RequestsInv /\ ResetTyped'
  BY ResetNextTyped DEF ResetSound
<1>1. CASE UNCHANGED resetVars
  BY <1>0, <1>1 DEF resetVars, ResetSound, RowsInv, RowSound, RequestsInv, RequestSound, TokenIds
<1>2. CASE ResetTick /\ UNCHANGED workers
  <2>1. /\ UNCHANGED <<tokens, resetReq>> /\ TokenIds' = TokenIds /\ resetTime' = resetTime + 1
        /\ \A q \in workers : resetReq[q].pc = "idle"
    BY <1>2 DEF ResetTick, TokenIds
  <2>2. RequestsInv'
    BY <1>2, <2>1 DEF RequestsInv, RequestSound
  <2>3. ASSUME NEW t \in TokenIds PROVE RowSound(t)'
    <3>1. RowSound(t)
      BY <1>0 DEF RowsInv
    <3>2. QED BY <1>0, <2>1, <3>1, TokenFields, ResetFacts, ResetBounds DEF RowSound
  <2>4. QED BY <1>0, <2>1, <2>2, <2>3 DEF ResetSound, RowsInv
<1>3. QED BY <1>0, <1>1, <1>2, RowsStep, RequestsStep DEF PasswordResetNext, ResetSound

\* One token sets one password, or one for each worker that found it unused; and
\* never later than the code and its token last, for any expiry times.
THEOREM TokensAreBounded == PasswordResetSpec => []ResetsBounded
<1>1. PasswordResetInit => ResetSound /\ PasswordsInv
  BY ResetInitSound DEF PasswordsInv
<1>2. ResetSound /\ PasswordsInv /\ [PasswordResetNext]_resetVars => ResetSound' /\ PasswordsInv'
  <2>1. SUFFICES ASSUME ResetSound, PasswordsInv, [PasswordResetNext]_resetVars
                 PROVE  PasswordsInv'
    BY ResetNextSound
  <2>2. CASE UNCHANGED resetVars
    BY <2>1, <2>2 DEF resetVars, PasswordsInv, PasswordsOf, Resetting, TokenIds
  <2>3. CASE ResetTick /\ UNCHANGED workers
    BY <2>1, <2>3 DEF ResetTick, PasswordsInv, PasswordsOf, Resetting, TokenIds
  <2>4. QED BY <2>1, <2>2, <2>3, PasswordsStep DEF PasswordResetNext, ResetSound
<1>3. ResetSound /\ PasswordsInv => ResetsBounded
  <2>1. SUFFICES ASSUME ResetSound, PasswordsInv, NEW t \in TokenIds
                 PROVE  Len(passwords[t]) <= Cardinality(workers)
    BY DEF ResetsBounded, PasswordsInv, PasswordsOf
  <2>2. Resetting(t) \in SUBSET workers /\ workers \in WorkerSets
    BY <2>1 DEF Resetting, ResetSound, ResetTyped
  <2>3. Cardinality(Resetting(t)) \in Nat /\ Cardinality(workers) \in Nat /\ Len(passwords[t]) \in Nat
    BY <2>1, <2>2, SomeWorkers, WorkersCounted, ResetFacts DEF ResetSound
  <2>4. QED BY <2>1, <2>3 DEF PasswordsInv, PasswordsOf
<1>4. QED BY <1>1, <1>2, <1>3, PTL DEF PasswordResetSpec

-----------------------------------------------------------------------------
(* Password resets: codes a day *)

Today == {t \in TokenIds : tokens[t].created_at + RESET_DAY >= resetTime}
Creating == {q \in workers : resetReq[q].pc = "create"}
\* The day's codes, those that the clean-up deleted included, and the codes that
\* handlers have counted and not stored.
LockoutInv == Cardinality(Today) + Cardinality(Creating) < PASSWORD_RESET_DAILY_LIMIT + Cardinality(workers)

LEMMA TodayCounted ==
  ASSUME ResetTyped
  PROVE  /\ IsFiniteSet(Today) /\ Cardinality(Today) \in Nat
         /\ IsFiniteSet(Creating) /\ Cardinality(Creating) \in Nat
         /\ Cardinality(Creating) <= Cardinality(workers)
         /\ Cardinality(workers) \in Nat /\ Cardinality(workers) >= 1
<1>1. IsFiniteSet(TokenIds)
  BY ResetFacts, FS_Interval
<1>2. Today \subseteq TokenIds
  BY DEF Today
<1>3. Creating \in SUBSET workers /\ workers \in WorkerSets
  BY DEF Creating, ResetTyped
<1>4. QED BY <1>1, <1>2, <1>3, NoMore, SomeWorkers, WorkersCounted

\* Nothing that a step counts grows.
LEMMA LockoutKept ==
  ASSUME ResetTyped, LockoutInv, UNCHANGED workers, Today' \subseteq Today, Creating' \subseteq Creating
  PROVE  LockoutInv'
<1>1. IsFiniteSet(Today) /\ IsFiniteSet(Creating)
  BY TodayCounted
<1>2. Cardinality(Today') <= Cardinality(Today) /\ Cardinality(Creating') <= Cardinality(Creating)
      /\ Cardinality(Today') \in Nat /\ Cardinality(Creating') \in Nat
      /\ Cardinality(Today) \in Nat /\ Cardinality(Creating) \in Nat
  BY <1>1, NoMore
<1>3. QED BY <1>2, TodayCounted, ResetBounds DEF LockoutInv

LEMMA LockoutStep ==
  ASSUME ResetSound, LockoutInv, UNCHANGED workers, NEW q \in workers, ResetStep(q)
  PROVE  LockoutInv'
<1>0. ResetTyped /\ RowsInv /\ workers \in WorkerSets /\ resetReq[q] \in ResetRequest
  BY ResetFacts DEF ResetSound, ResetTyped
<1>1. UNCHANGED resetTime /\ \A t \in TokenIds : t \in TokenIds' /\ tokens'[t].created_at = tokens[t].created_at
  <2>1. UNCHANGED resetTime
    BY DEF ResetStep, RequestReset, CreateToken, VerifyReset, CheckReset, WrongReset, RightReset,
           ResetPassword, PasswordChanged, ResetFails, CleanupTokens
  <2>2. QED BY <1>0, <2>1, RowsAfter DEF RowMoves
<1>2. ~CreateToken(q) => Today' = Today
  BY <1>0, <1>1, ResetNewRow DEF Today
<1>3. resetReq'[q].pc # "create" => Creating' \subseteq Creating /\ q \notin Creating'
  BY <1>0, OtherResets DEF Creating
<1>4. CASE CreateToken(q)
  <2> DEFINE a == Cardinality(Today)
             b == Cardinality(Creating)
  <2>1. Today' \subseteq Today \cup {Len(tokens) + 1}
    BY <1>0, <1>1, <1>4, CreatedRows DEF Today
  <2>2. resetReq'[q].pc = "idle" /\ q \in Creating
    BY <1>0, <1>4, AfterResetGoto, ResetIdleType DEF CreateToken, ResetEnds, Creating, ResetAt
  <2>3. Cardinality(Today') \in Nat /\ Cardinality(Today') <= a + 1
    BY <1>0, <2>1, TodayCounted, OneMore
  <2>4. Cardinality(Creating') \in Nat /\ Cardinality(Creating') + 1 <= b
    BY <1>0, <1>3, <2>2, TodayCounted, OneLess
  <2>5. QED BY <1>0, <2>3, <2>4, TodayCounted, ResetBounds DEF LockoutInv
<1>5. CASE RequestReset(q)
  <2>1. Today \subseteq CreatedWithin(RESET_DAY)
    BY <1>0 DEF Today, CreatedWithin, RowsInv, RowSound
  <2>2. CreatedWithin(RESET_DAY) \subseteq TokenIds /\ IsFiniteSet(TokenIds)
    BY <1>0, ResetFacts, FS_Interval DEF CreatedWithin
  <2>3. IsFiniteSet(CreatedWithin(RESET_DAY))
    BY <2>2, FS_Subset
  <2>4. Cardinality(Today) <= Cardinality(CreatedWithin(RESET_DAY))
        /\ Cardinality(CreatedWithin(RESET_DAY)) \in Nat
    BY <2>1, <2>3, NoMore
  <2>5. Cardinality(CreatedWithin(RESET_DAY)) < PASSWORD_RESET_DAILY_LIMIT
    BY <1>5 DEF RequestReset, MayRequest
  <2>6. Today' = Today /\ Creating' \in SUBSET workers
    BY <1>1, <1>5 DEF RequestReset, Today, TokenIds, Creating
  <2>7. Cardinality(Creating') \in Nat /\ Cardinality(Creating') <= Cardinality(workers)
    BY <1>0, <2>6, SomeWorkers
  <2>8. QED BY <1>0, <2>4, <2>5, <2>6, <2>7, TodayCounted, ResetBounds DEF LockoutInv
<1>6. CASE CleanupTokens(q)
  <2>1. Creating' = Creating /\ TokenIds' = TokenIds
    BY <1>6 DEF CleanupTokens, Creating, TokenIds
  <2>2. Today' = Today
    BY <1>1, <2>1 DEF Today
  <2>3. QED BY <1>0, <2>1, <2>2, LockoutKept
<1>7. ASSUME ~CreateToken(q), resetReq'[q].pc # "create" PROVE LockoutInv'
  BY <1>0, <1>2, <1>3, <1>7, LockoutKept
<1>8. CASE CheckReset(q)
  <2>1. resetReq'[q].pc # "create" /\ ~CreateToken(q)
    BY <1>0, <1>8, AfterResetGoto DEF CheckReset, CreateToken, ResetAt, ResetRequest
  <2>2. QED BY <1>7, <2>1
<1>9. ASSUME NEW d \in 0..MaxResetCodes, VerifyReset(q, d) \/ ResetPassword(q, d) PROVE LockoutInv'
  <2>1. \A t : [ResetIdle EXCEPT !.pc = "check", !.code = t, !.typed = d].pc # "create"
        /\ [ResetIdle EXCEPT !.pc = "reset", !.code = t].pc # "create"
    BY DEF ResetIdle
  <2>2. resetReq'[q].pc # "create" /\ ~CreateToken(q)
    BY <1>0, <1>9, <2>1, AfterResetGoto DEF VerifyReset, ResetPassword, CreateToken, ResetAt
  <2>3. QED BY <1>7, <2>2
<1>10. CASE WrongReset(q) \/ RightReset(q) \/ PasswordChanged(q) \/ (ResetFails(q) /\ ~CreateToken(q))
  <2>1. ResetEnds(q) /\ ~CreateToken(q)
    BY <1>10 DEF WrongReset, RightReset, PasswordChanged, ResetFails, CreateToken, ResetAt
  <2>2. resetReq'[q].pc = "idle"
    BY <1>0, <2>1, AfterResetGoto, ResetIdleType DEF ResetEnds
  <2>3. QED BY <1>7, <2>1, <2>2
<1>11. QED BY <1>4, <1>5, <1>6, <1>8, <1>9, <1>10 DEF ResetStep

\* However many handlers count at once and whatever the clean-up deletes, a user is
\* sent fewer codes in a day than the daily limit and the workers make together.
THEOREM LockoutIsKept == PasswordResetSpec => []LockoutHolds
<1>1. PasswordResetInit => ResetSound /\ LockoutInv
  <2>1. SUFFICES ASSUME PasswordResetInit PROVE LockoutInv
    BY ResetInitSound
  <2>2. Today = {} /\ Creating = {} /\ ResetTyped
    BY <2>1, ResetInitSound DEF Today, Creating, ResetSound
  <2>3. QED BY <2>2, FS_EmptySet, TodayCounted, ResetBounds DEF LockoutInv
<1>2. ResetSound /\ LockoutInv /\ [PasswordResetNext]_resetVars => ResetSound' /\ LockoutInv'
  <2>1. SUFFICES ASSUME ResetSound, LockoutInv, [PasswordResetNext]_resetVars PROVE LockoutInv'
    BY ResetNextSound
  <2>2. CASE UNCHANGED resetVars
    BY <2>1, <2>2 DEF resetVars, LockoutInv, Today, Creating, TokenIds
  <2>3. CASE ResetTick /\ UNCHANGED workers
    <3>0. ResetTyped
      BY <2>1 DEF ResetSound
    <3>1. TokenIds' = TokenIds /\ UNCHANGED <<tokens, resetReq>> /\ resetTime' = resetTime + 1
      BY <2>3 DEF ResetTick, TokenIds
    <3>2. Creating' = Creating /\ Today' \subseteq Today
      BY <2>3, <3>0, <3>1, TokenFields, ResetFacts, ResetBounds DEF Creating, Today
    <3>3. QED BY <2>1, <2>3, <3>0, <3>2, LockoutKept
  <2>4. QED BY <2>1, <2>2, <2>3, LockoutStep DEF PasswordResetNext
<1>3. ResetSound /\ LockoutInv => LockoutHolds
  <2>1. SUFFICES ASSUME ResetSound, LockoutInv PROVE LockoutHolds
    OBVIOUS
  <2>2. QED BY <2>1, TodayCounted, ResetBounds DEF ResetSound, LockoutInv, LockoutHolds, Today
<1>4. QED BY <1>1, <1>2, <1>3, PTL DEF PasswordResetSpec

-----------------------------------------------------------------------------
(* Accounts: rows, the log and requests *)

AccountsTyped == workers \in WorkerSets /\ AccountsTypeOK

LEMMA AccountFacts ==
  ASSUME AccountsTyped
  PROVE  /\ accounts \in [Users -> AccountRow] /\ workers \subseteq Worker
         /\ consentLog \in [Users -> [{"marketing", "terms", "account"} -> LogAction]]
         /\ cameBack \subseteq Users /\ accountReq \in [Worker -> AccountRequest]
BY WorkersCounted DEF AccountsTyped, AccountsTypeOK

\* A row, a log and a request with one of their columns set.
LEMMA AccountColumns ==
  ASSUME NEW row \in AccountRow, NEW c \in [ConsentType -> BOOLEAN]
  PROVE  /\ row.consents \in [ConsentType -> BOOLEAN]
         /\ [row EXCEPT !.consents = c] \in AccountRow
         /\ \A s \in {"no", "ahead", "due"} : [row EXCEPT !.scheduled = s] \in AccountRow
         /\ \A a \in {"never", "recent", "idle"} : [row EXCEPT !.activity = a] \in AccountRow
         /\ \A s \in {"active", "anonymous"} : [row EXCEPT !.state = s, !.consents = c] \in AccountRow
BY DEF AccountRow

LEMMA ConsentsSet ==
  ASSUME NEW row \in AccountRow, NEW c
  PROVE  /\ [row EXCEPT !.consents = c].state = row.state
         /\ [row EXCEPT !.consents = c].scheduled = row.scheduled
         /\ [row EXCEPT !.consents = c].consents = c
BY DEF AccountRow

LEMMA AccountIdleType ==
  /\ NoAccount \in AccountRow /\ Warned \in AccountRow
  /\ NoAccount.consents \in [ConsentType -> BOOLEAN]
  /\ AccountIdle \in AccountRequest /\ AccountIdle.pc = "idle"
<1>1. NoAccount \in AccountRow /\ NoAccount.consents \in [ConsentType -> BOOLEAN]
  BY DEF NoAccount, AccountRow
<1>2. Warned \in AccountRow
  BY DEF Warned, NoAccount, AccountRow, ConsentType
<1>3. (CHOOSE u \in Users : TRUE) \in Users
  BY AccountsAssumption
<1>4. AccountIdle \in AccountRequest /\ AccountIdle.pc = "idle"
  BY <1>1, <1>3 DEF AccountIdle, AccountRequest
<1>5. QED BY <1>1, <1>2, <1>4

LEMMA AfterAccountGoto ==
  ASSUME AccountsTyped, NEW q \in workers, NEW r, AccountGoto(q, r)
  PROVE  /\ accountReq'[q] = r
         /\ r \in AccountRequest => accountReq' \in [Worker -> AccountRequest]
BY AccountFacts DEF AccountGoto

LEMMA AfterAccountEnds ==
  ASSUME AccountsTyped, NEW q \in workers, AccountEnds(q)
  PROVE  accountReq'[q].pc = "idle" /\ accountReq' \in [Worker -> AccountRequest]
BY AfterAccountGoto, AccountIdleType DEF AccountEnds

\* A request as it begins.
LEMMA BegunRequest ==
  ASSUME AccountsTyped, NEW q \in workers, NEW u \in Users,
         NEW step \in {"consent", "reconsent", "login", "delete"},
         NEW old \in [ConsentType -> BOOLEAN], NEW dated \in BOOLEAN, Begin(q, u, step, old, dated)
  PROVE  /\ accountReq' \in [Worker -> AccountRequest]
         /\ accountReq'[q].pc = step /\ accountReq'[q].user = u
         /\ accountReq'[q].old = old /\ accountReq'[q].dated = dated
<1> DEFINE r == [AccountIdle EXCEPT !.pc = step, !.user = u, !.old = old, !.dated = dated]
<1>1. r \in AccountRequest
  BY AccountIdleType DEF AccountRequest
<1>2. r.pc = step /\ r.user = u /\ r.old = old /\ r.dated = dated
  BY AccountIdleType DEF AccountRequest
<1> HIDE DEF r
<1>3. AccountGoto(q, r)
  BY DEF Begin, r
<1>4. QED BY <1>1, <1>2, <1>3, AfterAccountGoto

\* The log after an entry.
LEMMA AfterLogged ==
  ASSUME AccountsTyped, NEW u \in Users, NEW type \in {"marketing", "terms", "account"},
         NEW action \in LogAction, Logged(u, type, action)
  PROVE  /\ consentLog' \in [Users -> [{"marketing", "terms", "account"} -> LogAction]]
         /\ \A v \in Users \ {u} : consentLog'[v] = consentLog[v]
         /\ \A t \in {"marketing", "terms", "account"} :
              consentLog'[u][t] = IF t = type THEN action ELSE consentLog[u][t]
BY AccountFacts DEF Logged

\* Rows that a handler writes.
LEMMA SeenRow ==
  ASSUME NEW row \in AccountRow, NEW b \in BOOLEAN
  PROVE  /\ SeenAgain(row, b) \in AccountRow
         /\ SeenAgain(row, b).state = row.state /\ SeenAgain(row, b).consents = row.consents
         /\ SeenAgain(row, b).scheduled = IF b THEN "no" ELSE row.scheduled
BY DEF SeenAgain, AccountRow

LEMMA AnonymizedRow ==
  ASSUME NEW row \in AccountRow, NEW old \in [ConsentType -> BOOLEAN]
  PROVE  /\ Anonymized(row, old) \in AccountRow
         /\ Anonymized(row, old).state = "anonymous"
         /\ Anonymized(row, old).scheduled = row.scheduled
         /\ \A type \in ConsentType :
              Anonymized(row, old).consents[type] = (row.consents[type] /\ ~old[type])
<1>1. Anonymized(row, old) \in AccountRow
  BY DEF Anonymized, AccountRow
<1>2. /\ Anonymized(row, old).state = "anonymous"
      /\ Anonymized(row, old).scheduled = row.scheduled
      /\ Anonymized(row, old).consents = [type \in ConsentType |-> row.consents[type] /\ ~old[type]]
  BY DEF Anonymized, AccountRow
<1>3. QED BY <1>1, <1>2

-----------------------------------------------------------------------------
(* Accounts: what each handler does *)

\* What is left when the rows and the request have their types.
LEMMA AccountsKept ==
  ASSUME AccountsTyped, UNCHANGED workers, accounts' \in [Users -> AccountRow],
         consentLog' \in [Users -> [{"marketing", "terms", "account"} -> LogAction]],
         cameBack' \subseteq Users, accountReq' \in [Worker -> AccountRequest]
  PROVE  AccountsTyped'
BY DEF AccountsTyped, AccountsTypeOK, AccountRow, AccountRequest

\* The row of one user changes, and the log of that user.
SameRow(u) == accounts'[u] = accounts[u] /\ consentLog'[u] = consentLog[u]

LEMMA AfterRegister ==
  ASSUME AccountsTyped, UNCHANGED workers, NEW q \in workers, NEW u \in Users, NEW b \in BOOLEAN,
         Register(q, u, b)
  PROVE  /\ AccountsTyped' /\ \A v \in Users \ {u} : SameRow(v)
         /\ accounts[u].state = "none" /\ accounts'[u].state = "active"
         /\ accounts'[u].scheduled = accounts[u].scheduled
         /\ accounts'[u].consents["marketing"] = b /\ accounts'[u].consents["terms"] = TRUE
         /\ consentLog'[u]["account"] = "nothing"
         /\ consentLog'[u]["marketing"] = IF b THEN "granted" ELSE "nothing"
<1> DEFINE c == [marketing |-> b, terms |-> TRUE]
           l == [TermsLog EXCEPT !.marketing = IF b THEN "granted" ELSE "nothing"]
<1>1. c \in [ConsentType -> BOOLEAN] /\ c["marketing"] = b /\ c["terms"] = TRUE
  <2>1. [ConsentType -> BOOLEAN] = [marketing : BOOLEAN, terms : BOOLEAN]
    BY DEF ConsentType
  <2>2. QED BY <2>1
<1>2. /\ l \in [{"marketing", "terms", "account"} -> LogAction]
      /\ l["account"] = "nothing" /\ l["marketing"] = IF b THEN "granted" ELSE "nothing"
  <2>1. [{"marketing", "terms", "account"} -> LogAction]
          = [marketing : LogAction, terms : LogAction, account : LogAction]
    OBVIOUS
  <2>2. "granted" \in LogAction /\ "nothing" \in LogAction
    BY DEF LogAction
  <2>3. QED BY <2>1, <2>2 DEF TermsLog, NoLog
<1>3. accounts[u] \in AccountRow
  BY AccountFacts
<1> HIDE DEF c, l
<1>4. accounts' = [accounts EXCEPT ![u] = [accounts[u] EXCEPT !.state = "active", !.consents = c]]
      /\ consentLog' = [consentLog EXCEPT ![u] = l]
  BY AccountFacts DEF Register, c, l
<1>5. [accounts[u] EXCEPT !.state = "active", !.consents = c] \in AccountRow
  BY <1>1, <1>3, AccountColumns
<1>6. /\ accounts' \in [Users -> AccountRow]
      /\ consentLog' \in [Users -> [{"marketing", "terms", "account"} -> LogAction]]
      /\ accounts'[u] = [accounts[u] EXCEPT !.state = "active", !.consents = c]
      /\ consentLog'[u] = l /\ \A v \in Users \ {u} : SameRow(v)
  BY <1>2, <1>4, <1>5, AccountFacts DEF SameRow
<1>7. /\ accounts'[u].state = "active" /\ accounts'[u].consents = c
      /\ accounts'[u].scheduled = accounts[u].scheduled
  BY <1>3, <1>6 DEF AccountRow
<1>8. AccountsTyped'
  BY <1>6, AccountFacts, AccountsKept DEF Register
<1>9. QED BY <1>1, <1>2, <1>6, <1>7, <1>8 DEF Register

\* A consent that is stored and logged: u's handler knows the row's consents as r.old.
LEMMA AfterConsent ==
  ASSUME AccountsTyped, UNCHANGED workers, NEW q \in workers, ConsentUpdated(q) \/ Reconsented(q),
         NEW u, u = accountReq[q].user, NEW old, old = accountReq[q].old
  PROVE  /\ u \in Users /\ old \in [ConsentType -> BOOLEAN]
         /\ AccountsTyped' /\ UNCHANGED cameBack /\ \A v \in Users \ {u} : SameRow(v)
         /\ accounts'[u].state = accounts[u].state /\ accounts'[u].scheduled = accounts[u].scheduled
         /\ consentLog'[u]["account"] = consentLog[u]["account"]
         /\ accountReq'[q].pc = "idle"
         /\ ConsentUpdated(q) =>
              /\ accounts'[u].consents["marketing"] = (~old["marketing"])
              /\ accounts'[u].consents["terms"] = accounts[u].consents["terms"]
              /\ consentLog'[u]["marketing"] = IF ~old["marketing"] THEN "granted" ELSE "withdrawn"
         /\ Reconsented(q) =>
              /\ accounts'[u].consents["marketing"] = accounts[u].consents["marketing"]
              /\ accounts'[u].consents["terms"] = (accounts[u].consents["terms"] \/ ~old["terms"])
              /\ consentLog'[u]["marketing"] = consentLog[u]["marketing"]
<1>0. /\ u \in Users /\ old \in [ConsentType -> BOOLEAN] /\ accounts[u] \in AccountRow
      /\ accounts[u].consents \in [ConsentType -> BOOLEAN]
      /\ "marketing" \in ConsentType /\ "terms" \in ConsentType
  BY AccountFacts, AccountColumns DEF AccountRequest, ConsentType
<1>1. accountReq'[q].pc = "idle" /\ accountReq' \in [Worker -> AccountRequest] /\ UNCHANGED cameBack
  BY AfterAccountEnds DEF ConsentUpdated, Reconsented
<1>2. ASSUME NEW type \in ConsentType, NEW value \in BOOLEAN, NEW action \in LogAction,
             Logged(u, type, action), type # "account",
             accounts' = [accounts EXCEPT ![u].consents[type] = value]
      PROVE  /\ AccountsTyped' /\ \A v \in Users \ {u} : SameRow(v)
             /\ accounts'[u].state = accounts[u].state
             /\ accounts'[u].scheduled = accounts[u].scheduled
             /\ accounts'[u].consents[type] = value /\ consentLog'[u][type] = action
             /\ \A t \in ConsentType \ {type} :
                  accounts'[u].consents[t] = accounts[u].consents[t] /\ consentLog'[u][t] = consentLog[u][t]
             /\ consentLog'[u]["account"] = consentLog[u]["account"]
  <2>0. PICK c : c = [accounts[u].consents EXCEPT ![type] = value]
    OBVIOUS
  <2>1. /\ c \in [ConsentType -> BOOLEAN] /\ c[type] = value
        /\ \A t \in ConsentType \ {type} : c[t] = accounts[u].consents[t]
    BY <1>0, <2>0
  <2>2. accounts' = [accounts EXCEPT ![u] = [accounts[u] EXCEPT !.consents = c]]
    BY <1>0, <1>2, <2>0, AccountFacts
  <2>3. [accounts[u] EXCEPT !.consents = c] \in AccountRow
    BY <1>0, <2>1, AccountColumns
  <2>4. /\ accounts' \in [Users -> AccountRow] /\ \A v \in Users \ {u} : accounts'[v] = accounts[v]
        /\ accounts'[u] = [accounts[u] EXCEPT !.consents = c]
    BY <1>0, <2>2, <2>3, AccountFacts
  <2>5. /\ accounts'[u].state = accounts[u].state /\ accounts'[u].consents = c
        /\ accounts'[u].scheduled = accounts[u].scheduled
    BY <1>0, <2>4, ConsentsSet
  <2>6. type \in {"marketing", "terms", "account"} /\ ConsentType \subseteq {"marketing", "terms", "account"}
    BY DEF ConsentType
  <2>7. /\ consentLog' \in [Users -> [{"marketing", "terms", "account"} -> LogAction]]
        /\ \A v \in Users \ {u} : consentLog'[v] = consentLog[v]
        /\ \A t \in {"marketing", "terms", "account"} :
             consentLog'[u][t] = IF t = type THEN action ELSE consentLog[u][t]
    BY <1>0, <1>2, <2>6, AfterLogged
  <2>8. AccountsTyped'
    BY <1>1, <2>4, <2>7, AccountFacts, AccountsKept
  <2>9. /\ accounts'[u].consents[type] = value
        /\ \A t \in ConsentType \ {type} : accounts'[u].consents[t] = accounts[u].consents[t]
    BY <2>1, <2>5
  <2>10. /\ consentLog'[u][type] = action /\ consentLog'[u]["account"] = consentLog[u]["account"]
         /\ \A t \in ConsentType \ {type} : consentLog'[u][t] = consentLog[u][t]
    BY <1>2, <2>6, <2>7
  <2>11. \A v \in Users \ {u} : SameRow(v)
    BY <2>4, <2>7 DEF SameRow
  <2>12. QED BY <2>5, <2>8, <2>9, <2>10, <2>11
<1>3. CASE ConsentUpdated(q)
  <2>1. PICK value \in BOOLEAN : value = ~old["marketing"]
    OBVIOUS
  <2>2. PICK action \in LogAction : action = IF ~old["marketing"] THEN "granted" ELSE "withdrawn"
    BY DEF LogAction
  <2>0. PICK type \in ConsentType : type = "marketing"
    BY <1>0
  <2>3. /\ accounts' = [accounts EXCEPT ![u].consents[type] = value]
        /\ Logged(u, type, action) /\ type # "account"
    BY <1>3, <2>0, <2>1, <2>2 DEF ConsentUpdated
  <2>4. ~Reconsented(q)
    BY <1>3 DEF ConsentUpdated, Reconsented, AccountAt
  <2>5. /\ AccountsTyped' /\ \A v \in Users \ {u} : SameRow(v)
        /\ accounts'[u].state = accounts[u].state
        /\ accounts'[u].scheduled = accounts[u].scheduled
        /\ consentLog'[u]["account"] = consentLog[u]["account"]
        /\ accounts'[u].consents[type] = value /\ consentLog'[u][type] = action
        /\ \A t \in ConsentType \ {type} :
               accounts'[u].consents[t] = accounts[u].consents[t] /\ consentLog'[u][t] = consentLog[u][t]
    <3>1. AccountsTyped' /\ \A v \in Users \ {u} : SameRow(v)
      BY <1>2, <2>3
    <3>2. /\ accounts'[u].state = accounts[u].state
          /\ accounts'[u].scheduled = accounts[u].scheduled
      BY <1>2, <2>3
    <3>3. consentLog'[u]["account"] = consentLog[u]["account"]
      BY <1>2, <2>3
    <3>4. /\ accounts'[u].consents[type] = value /\ consentLog'[u][type] = action
          /\ \A t \in ConsentType \ {type} :
               accounts'[u].consents[t] = accounts[u].consents[t] /\ consentLog'[u][t] = consentLog[u][t]
      BY <1>2, <2>3
    <3>5. QED BY <3>1, <3>2, <3>3, <3>4
  <2>6. /\ accounts'[u].consents["marketing"] = value
        /\ accounts'[u].consents["terms"] = accounts[u].consents["terms"]
        /\ consentLog'[u]["marketing"] = action
    BY <1>0, <2>0, <2>5
  <2>7. QED BY <1>0, <1>1, <2>1, <2>2, <2>4, <2>5, <2>6
<1>4. CASE Reconsented(q)
  <2>1. PICK value \in BOOLEAN : value = (accounts[u].consents["terms"] \/ ~old["terms"])
    OBVIOUS
  <2>2. "granted" \in LogAction
    BY DEF LogAction
  <2>0. PICK type \in ConsentType : type = "terms"
    BY <1>0
  <2>3. /\ accounts' = [accounts EXCEPT ![u].consents[type] = value]
        /\ Logged(u, type, "granted") /\ type # "account"
    BY <1>4, <1>0, <2>0, <2>1, AccountFacts DEF Reconsented
  <2>4. ~ConsentUpdated(q)
    BY <1>4 DEF ConsentUpdated, Reconsented, AccountAt
  <2>5. /\ AccountsTyped' /\ \A v \in Users \ {u} : SameRow(v)
        /\ accounts'[u].state = accounts[u].state
        /\ accounts'[u].scheduled = accounts[u].scheduled
        /\ consentLog'[u]["account"] = consentLog[u]["account"]
        /\ accounts'[u].consents[type] = value /\ consentLog'[u][type] = "granted"
        /\ \A t \in ConsentType \ {type} :
               accounts'[u].consents[t] = accounts[u].consents[t] /\ consentLog'[u][t] = consentLog[u][t]
    BY <1>0, <1>2, <2>2, <2>3
  <2>6. /\ accounts'[u].consents["marketing"] = accounts[u].consents["marketing"]
        /\ accounts'[u].consents["terms"] = value
        /\ consentLog'[u]["marketing"] = consentLog[u]["marketing"]
    BY <1>0, <2>0, <2>5
  <2>7. QED BY <1>0, <1>1, <2>1, <2>4, <2>5, <2>6
<1>5. QED BY <1>3, <1>4

LEMMA AfterLogin ==
  ASSUME AccountsTyped, UNCHANGED workers, NEW q \in workers, LoggedIn(q),
         NEW u, u = accountReq[q].user, NEW dated, dated = accountReq[q].dated
  PROVE  /\ u \in Users /\ dated \in BOOLEAN /\ AccountsTyped' /\ cameBack' = cameBack \cup {u}
         /\ UNCHANGED consentLog /\ \A v \in Users \ {u} : SameRow(v)
         /\ accounts'[u].state = accounts[u].state
         /\ accounts'[u].consents = accounts[u].consents
         /\ accounts'[u].scheduled = IF dated THEN "no" ELSE accounts[u].scheduled
         /\ accountReq'[q].pc = "idle"
<1>0. u \in Users /\ dated \in BOOLEAN /\ accounts[u] \in AccountRow
  BY AccountFacts DEF AccountRequest
<1>1. accountReq'[q].pc = "idle" /\ accountReq' \in [Worker -> AccountRequest]
  BY AfterAccountEnds DEF LoggedIn
<1>2. /\ accounts' = [accounts EXCEPT ![u] = SeenAgain(accounts[u], dated)]
      /\ cameBack' = cameBack \cup {u} /\ UNCHANGED consentLog
  BY <1>0, AccountFacts DEF LoggedIn
<1>3. /\ accounts' \in [Users -> AccountRow] /\ accounts'[u] = SeenAgain(accounts[u], dated)
      /\ \A v \in Users \ {u} : SameRow(v)
  BY <1>0, <1>2, AccountFacts, SeenRow DEF SameRow
<1>4. AccountsTyped'
  BY <1>0, <1>1, <1>2, <1>3, AccountFacts, AccountsKept
<1>5. QED BY <1>0, <1>1, <1>2, <1>3, <1>4, SeenRow

LEMMA AfterDeletion ==
  ASSUME AccountsTyped, UNCHANGED workers, NEW q \in workers, AccountDeleted(q),
         NEW u, u = accountReq[q].user, NEW old, old = accountReq[q].old
  PROVE  /\ u \in Users /\ AccountsTyped' /\ UNCHANGED cameBack
         /\ \A v \in Users \ {u} : SameRow(v)
         /\ accounts'[u].state = "anonymous" /\ accounts'[u].scheduled = accounts[u].scheduled
         /\ \A type \in ConsentType :
              accounts'[u].consents[type] = (accounts[u].consents[type] /\ ~old[type])
         /\ consentLog'[u]["account"] = "deleted"
         /\ accountReq'[q].pc = "idle"
<1>0. u \in Users /\ old \in [ConsentType -> BOOLEAN] /\ accounts[u] \in AccountRow
  BY AccountFacts DEF AccountRequest
<1>1. accountReq'[q].pc = "idle" /\ accountReq' \in [Worker -> AccountRequest]
  BY AfterAccountEnds DEF AccountDeleted
<1>2. /\ accounts' = [accounts EXCEPT ![u] = Anonymized(accounts[u], old)]
      /\ Logged(u, "account", "deleted") /\ UNCHANGED cameBack
  BY <1>0, AccountFacts DEF AccountDeleted
<1>3. /\ accounts' \in [Users -> AccountRow] /\ accounts'[u] = Anonymized(accounts[u], old)
      /\ \A v \in Users \ {u} : accounts'[v] = accounts[v]
  BY <1>0, <1>2, AccountFacts, AnonymizedRow
<1>4. "deleted" \in LogAction /\ "account" \in {"marketing", "terms", "account"}
  BY DEF LogAction
<1>5. /\ consentLog' \in [Users -> [{"marketing", "terms", "account"} -> LogAction]]
      /\ \A v \in Users \ {u} : consentLog'[v] = consentLog[v]
      /\ consentLog'[u]["account"] = "deleted"
  BY <1>0, <1>2, <1>4, AfterLogged
<1>6. AccountsTyped'
  BY <1>1, <1>2, <1>3, <1>5, AccountFacts, AccountsKept
<1>7. /\ accounts'[u].state = "anonymous" /\ accounts'[u].scheduled = accounts[u].scheduled
      /\ \A type \in ConsentType :
           accounts'[u].consents[type] = (accounts[u].consents[type] /\ ~old[type])
  BY <1>0, <1>3, AnonymizedRow
<1>8. QED BY <1>0, <1>1, <1>2, <1>3, <1>5, <1>6, <1>7 DEF SameRow

LEMMA AfterAnonymized ==
  ASSUME AccountsTyped, UNCHANGED workers, NEW q \in workers, NEW u \in Users, AnonymizeDue(q, u),
         NEW warn, warn = accountReq[q].warn
  PROVE  /\ AccountsTyped' /\ cameBack' = cameBack \ warn
         /\ u \in accountReq[q].due /\ accountReq'[q].pc = "sweep"
         /\ accountReq'[q].due = accountReq[q].due \ {u}
         /\ \A v \in Users \cap warn : accounts'[v].scheduled = "ahead"
         /\ \A v \in Users \ warn : accounts'[v].scheduled = accounts[v].scheduled
         /\ \A v \in Users \ {u} : /\ accounts'[v].state = accounts[v].state
                                   /\ accounts'[v].consents = accounts[v].consents
                                   /\ consentLog'[v] = consentLog[v]
         /\ accounts'[u].state = "anonymous"
         /\ accounts'[u].consents["marketing"] = FALSE /\ accounts'[u].consents["terms"] = FALSE
         /\ consentLog'[u]["account"] = "anonymized_inactive"
<1> DEFINE r == accountReq[q]
           warned(v) == IF v \in warn THEN [accounts[v] EXCEPT !.scheduled = "ahead"]
                                      ELSE accounts[v]
<1>0. r \in AccountRequest /\ \A v \in Users : accounts[v] \in AccountRow
  BY AccountFacts
<1>1. \A v \in Users : /\ warned(v) \in AccountRow /\ warned(v).state = accounts[v].state
                       /\ warned(v).consents = accounts[v].consents
                       /\ warned(v).scheduled = IF v \in warn THEN "ahead" ELSE accounts[v].scheduled
  BY <1>0 DEF AccountRow
<1>2. [r EXCEPT !.due = @ \ {u}, !.warn = {}] \in AccountRequest
      /\ [r EXCEPT !.due = @ \ {u}, !.warn = {}].pc = r.pc
      /\ [r EXCEPT !.due = @ \ {u}, !.warn = {}].due = r.due \ {u}
  BY <1>0 DEF AccountRequest
<1>3. accounts' = [v \in Users |-> IF v = u THEN Anonymized(warned(v), accounts[v].consents)
                                            ELSE warned(v)]
      /\ AccountGoto(q, [r EXCEPT !.due = @ \ {u}, !.warn = {}])
      /\ cameBack' = cameBack \ warn /\ Logged(u, "account", "anonymized_inactive")
      /\ r.pc = "sweep" /\ u \in r.due
  BY DEF AnonymizeDue, AccountAt
<1> HIDE DEF warned
<1>4. accountReq' \in [Worker -> AccountRequest] /\ accountReq'[q].pc = "sweep"
      /\ accountReq'[q].due = r.due \ {u}
  BY <1>2, <1>3, AfterAccountGoto
<1>5. \A v \in Users : accounts[v].consents \in [ConsentType -> BOOLEAN]
  BY <1>0 DEF AccountRow
<1>6. accounts' \in [Users -> AccountRow]
  BY <1>1, <1>3, <1>5, AnonymizedRow
<1>7. /\ accounts'[u] = Anonymized(warned(u), accounts[u].consents)
      /\ \A v \in Users \ {u} : accounts'[v] = warned(v)
  BY <1>3
<1>8. /\ accounts'[u].state = "anonymous" /\ accounts'[u].scheduled = warned(u).scheduled
      /\ \A type \in ConsentType :
           accounts'[u].consents[type] = (warned(u).consents[type] /\ ~accounts[u].consents[type])
  BY <1>1, <1>5, <1>7, AnonymizedRow
<1>9. accounts'[u].consents["marketing"] = FALSE /\ accounts'[u].consents["terms"] = FALSE
  BY <1>1, <1>8 DEF ConsentType
<1>10. "anonymized_inactive" \in LogAction /\ "account" \in {"marketing", "terms", "account"}
  BY DEF LogAction
<1>11. /\ consentLog' \in [Users -> [{"marketing", "terms", "account"} -> LogAction]]
       /\ \A v \in Users \ {u} : consentLog'[v] = consentLog[v]
       /\ consentLog'[u]["account"] = "anonymized_inactive"
  BY <1>3, <1>10, AfterLogged
<1>12. AccountsTyped'
  BY <1>3, <1>4, <1>6, <1>11, AccountFacts, AccountsKept
<1>13. \A v \in Users : accounts'[v].scheduled = IF v \in warn THEN "ahead" ELSE accounts[v].scheduled
  BY <1>1, <1>7, <1>8
<1>14. \A v \in Users \ {u} : /\ accounts'[v].state = accounts[v].state
                              /\ accounts'[v].consents = accounts[v].consents
  BY <1>1, <1>7
<1>15. QED BY <1>3, <1>4, <1>8, <1>9, <1>11, <1>12, <1>13, <1>14

LEMMA AfterBegun ==
  ASSUME AccountsTyped, UNCHANGED workers, NEW q \in workers, NEW u \in Users,
         NEW step \in {"consent", "reconsent", "login", "delete"},
         NEW old \in [ConsentType -> BOOLEAN], NEW dated \in BOOLEAN, Begin(q, u, step, old, dated)
  PROVE  AccountsTyped' /\ IsActive(u) /\ UNCHANGED <<accounts, consentLog, cameBack>>
<1>1. IsActive(u) /\ UNCHANGED <<accounts, consentLog, cameBack>>
  BY DEF Begin
<1>2. QED BY <1>1, BegunRequest, AccountFacts, AccountsKept

LEMMA AfterSweep ==
  ASSUME AccountsTyped, UNCHANGED workers, NEW q \in workers, Sweep(q)
  PROVE  /\ AccountsTyped' /\ UNCHANGED <<accounts, consentLog, cameBack>>
         /\ accountReq'[q].pc = "sweep"
         /\ \A u \in accountReq'[q].due : u \in Users /\ accounts[u].scheduled = "due"
<1> DEFINE warn == {u \in Users : /\ IsActive(u) /\ accounts[u].activity = "idle"
                                  /\ accounts[u].scheduled = "no"}
           pastGrace == {u \in Users : IsActive(u) /\ accounts[u].scheduled = "due"}
           r == [AccountIdle EXCEPT !.pc = "sweep", !.warn = warn, !.due = pastGrace]
<1>1. warn \subseteq Users /\ pastGrace \subseteq Users
      /\ \A u \in pastGrace : accounts[u].scheduled = "due"
  OBVIOUS
<1>2. AccountGoto(q, r) /\ UNCHANGED <<accounts, consentLog, cameBack>>
  BY DEF Sweep
<1> HIDE DEF warn, pastGrace
<1>3. r \in AccountRequest /\ r.pc = "sweep" /\ r.due = pastGrace
  BY <1>1, AccountIdleType DEF AccountRequest
<1> HIDE DEF r
<1>4. QED BY <1>1, <1>2, <1>3, AfterAccountGoto, AccountFacts, AccountsKept

LEMMA AfterTime ==
  ASSUME AccountsTyped, UNCHANGED workers, NEW u \in Users, Idles(u) \/ GracePasses(u)
  PROVE  /\ AccountsTyped' /\ UNCHANGED <<consentLog, cameBack, accountReq>>
         /\ \A v \in Users : /\ accounts'[v].state = accounts[v].state
                             /\ accounts'[v].consents = accounts[v].consents
                             /\ \/ accounts'[v].scheduled = accounts[v].scheduled
                                \/ accounts[v].scheduled = "ahead" /\ accounts'[v].scheduled = "due"
<1>0. \A v \in Users : accounts[v] \in AccountRow
  BY AccountFacts
<1>1. CASE Idles(u)
  <2>1. /\ accounts' = [accounts EXCEPT ![u] = [accounts[u] EXCEPT !.activity = "idle"]]
        /\ UNCHANGED <<consentLog, cameBack, accountReq>>
    BY <1>1, AccountFacts DEF Idles
  <2>2. [accounts[u] EXCEPT !.activity = "idle"] \in AccountRow
    BY <1>0 DEF AccountRow
  <2>3. accounts' \in [Users -> AccountRow]
    BY <2>1, <2>2, AccountFacts
  <2>4. \A v \in Users : accounts'[v] = accounts[v]
                         \/ accounts'[v] = [accounts[v] EXCEPT !.activity = "idle"]
    BY <2>1, AccountFacts
  <2>5. AccountsTyped'
    BY <2>1, <2>3, AccountFacts, AccountsKept
  <2>6. QED BY <1>0, <2>1, <2>4, <2>5 DEF AccountRow
<1>2. CASE GracePasses(u)
  <2>1. /\ accounts' = [accounts EXCEPT ![u] = [accounts[u] EXCEPT !.scheduled = "due"]]
        /\ accounts[u].scheduled = "ahead"
        /\ UNCHANGED <<consentLog, cameBack, accountReq>>
    BY <1>2, AccountFacts DEF GracePasses
  <2>2. [accounts[u] EXCEPT !.scheduled = "due"] \in AccountRow
    BY <1>0 DEF AccountRow
  <2>3. accounts' \in [Users -> AccountRow]
    BY <2>1, <2>2, AccountFacts
  <2>4. \A v \in Users : accounts'[v] = accounts[v]
                         \/ /\ accounts[v].scheduled = "ahead"
                            /\ accounts'[v] = [accounts[v] EXCEPT !.scheduled = "due"]
    BY <2>1, AccountFacts
  <2>5. AccountsTyped'
    BY <2>1, <2>3, AccountFacts, AccountsKept
  <2>6. QED BY <1>0, <2>1, <2>4, <2>5 DEF AccountRow
<1>3. QED BY <1>1, <1>2

LEMMA AfterEnd ==
  ASSUME AccountsTyped, UNCHANGED workers, NEW q \in workers, SweepEnds(q) \/ AccountDies(q)
  PROVE  /\ AccountsTyped' /\ UNCHANGED <<accounts, consentLog, cameBack>>
         /\ accountReq'[q].pc = "idle"
<1>1. AccountEnds(q) /\ UNCHANGED <<accounts, consentLog, cameBack>>
  BY DEF SweepEnds, AccountDies
<1>2. QED BY <1>1, AfterAccountEnds, AccountFacts, AccountsKept

-----------------------------------------------------------------------------
(* Accounts: type correctness *)

LEMMA AccountsInitTyped ==
  ASSUME AccountsInit
  PROVE  AccountsTyped
<1>1. [{"marketing", "terms", "account"} -> LogAction]
        = [marketing : LogAction, terms : LogAction, account : LogAction]
  OBVIOUS
<1>2. "granted" \in LogAction /\ "nothing" \in LogAction
  BY DEF LogAction
<1>3. NoLog \in [{"marketing", "terms", "account"} -> LogAction]
      /\ TermsLog \in [{"marketing", "terms", "account"} -> LogAction]
  BY <1>1, <1>2 DEF NoLog, TermsLog
<1>4. QED BY <1>3, AccountIdleType DEF AccountsInit, WorkersInit, AccountsTyped, AccountsTypeOK

LEMMA AccountStepTyped ==
  ASSUME AccountsTyped, UNCHANGED workers, NEW q \in workers, AccountStep(q)
  PROVE  AccountsTyped'
<1>1. ASSUME NEW u \in Users, NEW b \in BOOLEAN, Register(q, u, b) PROVE AccountsTyped'
  BY <1>1, AfterRegister
<1>2. ASSUME NEW u \in Users, UpdateConsent(q, u) \/ Reconsent(q, u) \/ Login(q, u) \/ DeleteAccount(q, u)
      PROVE  AccountsTyped'
  <2>1. accounts[u].consents \in [ConsentType -> BOOLEAN] /\ NoAccount.consents \in [ConsentType -> BOOLEAN]
        /\ (accounts[u].scheduled # "no") \in BOOLEAN /\ FALSE \in BOOLEAN
    BY AccountFacts, AccountIdleType DEF AccountRow
  <2>2. CASE UpdateConsent(q, u)
    BY <2>1, <2>2, AfterBegun DEF UpdateConsent
  <2>3. CASE Reconsent(q, u)
    BY <2>1, <2>3, AfterBegun DEF Reconsent
  <2>4. CASE Login(q, u)
    BY <2>1, <2>4, AfterBegun DEF Login
  <2>5. CASE DeleteAccount(q, u)
    BY <2>1, <2>5, AfterBegun DEF DeleteAccount
  <2>6. QED BY <1>2, <2>2, <2>3, <2>4, <2>5
<1>3. ASSUME NEW u \in Users, AnonymizeDue(q, u) PROVE AccountsTyped'
  BY <1>3, AfterAnonymized
<1>4. CASE ConsentUpdated(q) \/ Reconsented(q)
  BY <1>4, AfterConsent
<1>5. CASE LoggedIn(q)
  BY <1>5, AfterLogin
<1>6. CASE AccountDeleted(q)
  BY <1>6, AfterDeletion
<1>7. CASE Sweep(q)
  BY <1>7, AfterSweep
<1>8. CASE SweepEnds(q) \/ AccountDies(q)
  BY <1>8, AfterEnd
<1>9. QED BY <1>1, <1>2, <1>3, <1>4, <1>5, <1>6, <1>7, <1>8 DEF AccountStep

LEMMA AccountsNextTyped ==
  ASSUME AccountsTyped, [AccountsNext]_accountVars
  PROVE  AccountsTyped'
<1>1. CASE UNCHANGED accountVars
  BY <1>1 DEF accountVars, AccountsTyped, AccountsTypeOK, AccountRow, AccountRequest
<1>2. QED BY <1>1, AccountStepTyped, AfterTime DEF AccountsNext

\* The variables of the accounts hold values of their types, for every set of
\* users and of workers.
THEOREM AccountsTypeCorrect == AccountsSpec => []AccountsTypeOK
<1>1. AccountsInit => AccountsTyped
  BY AccountsInitTyped
<1>2. AccountsTyped /\ [AccountsNext]_accountVars => AccountsTyped'
  BY AccountsNextTyped
<1>3. AccountsTyped => AccountsTypeOK
  BY DEF AccountsTyped
<1>4. QED BY <1>1, <1>2, <1>3, PTL DEF AccountsSpec

-----------------------------------------------------------------------------
(* One handler at a time: rows, the log, and who came back *)

\* The account is there, and no entry of the log says that it was anonymised.
ProfileKept(u) == accounts[u].state # "none" /\ consentLog[u]["account"] = "nothing"
\* A user's row and log.  Nobody whose anonymisation is scheduled has come back.
UserSound(u) ==
  /\ IsActive(u) => consentLog[u]["account"] = "nothing"
  /\ consentLog[u]["account"] = "anonymized_inactive" => ~IsActive(u) /\ u \notin cameBack
  /\ u \in cameBack => accounts[u].scheduled = "no"
  /\ accounts[u].consents["marketing"] = (ProfileKept(u) /\ consentLog[u]["marketing"] = "granted")
  /\ accounts[u].consents["terms"] = ProfileKept(u)
\* What a handler has read is still so.
HandlerSound(q) ==
  LET r == accountReq[q]
  IN /\ r.pc \in {"consent", "reconsent", "login", "delete"} => r.user \in Users /\ IsActive(r.user)
     /\ r.pc \in {"consent", "reconsent", "delete"} => r.old = accounts[r.user].consents
     /\ r.pc = "login" /\ ~r.dated => accounts[r.user].scheduled = "no"
     /\ r.pc = "sweep" => \A u \in r.due : accounts[u].scheduled # "no"
AccountsInv ==
  Serial => (\A u \in Users : UserSound(u)) /\ (\A q \in workers : HandlerSound(q))

\* A user whose row and log don't change.
LEMMA UserKept ==
  ASSUME NEW u, UserSound(u), accounts'[u].state = accounts[u].state,
         accounts'[u].consents = accounts[u].consents, consentLog'[u] = consentLog[u],
         u \in cameBack' => accounts'[u].scheduled = "no" /\ (u \in cameBack \/ IsActive(u))
  PROVE  UserSound(u)'
BY DEF UserSound, ProfileKept, IsActive

\* A user who has been anonymised.
LEMMA UserGone ==
  ASSUME NEW u, accounts'[u].state = "anonymous", consentLog'[u]["account"] # "nothing",
         accounts'[u].consents["marketing"] = FALSE, accounts'[u].consents["terms"] = FALSE,
         u \in cameBack' => /\ accounts'[u].scheduled = "no"
                            /\ consentLog'[u]["account"] # "anonymized_inactive"
  PROVE  UserSound(u)'
<1>1. ~ProfileKept(u)' /\ ~IsActive(u)'
  BY DEF ProfileKept, IsActive
<1>2. (ProfileKept(u) /\ consentLog[u]["marketing"] = "granted")' = FALSE /\ ProfileKept(u)' = FALSE
  BY <1>1
<1>3. QED BY <1>1, <1>2 DEF UserSound

LEMMA AccountsStep ==
  ASSUME AccountsTyped, AccountsInv, UNCHANGED workers, NEW q \in workers, AccountStep(q)
  PROVE  AccountsInv'
<1>1. SUFFICES ASSUME Serial
               PROVE  (\A u \in Users : UserSound(u)') /\ HandlerSound(q)'
  <2>1. Serial => \A p \in workers : p = q
    BY Alone DEF AccountsTyped
  <2>2. Serial' = Serial
    BY DEF Serial
  <2>3. QED BY <2>1, <2>2 DEF AccountsInv
<1>2. (\A u \in Users : UserSound(u)) /\ HandlerSound(q)
  BY <1>1 DEF AccountsInv
<1> DEFINE r == accountReq[q]
<1>3. ASSUME UNCHANGED <<accounts, consentLog, cameBack>> PROVE \A u \in Users : UserSound(u)'
  BY <1>2, <1>3 DEF UserSound, ProfileKept, IsActive
<1>4. ASSUME accountReq'[q].pc = "idle" PROVE HandlerSound(q)'
  BY <1>4 DEF HandlerSound
<1>5. ASSUME UNCHANGED cameBack, NEW u \in Users, SameRow(u) PROVE UserSound(u)'
  BY <1>2, <1>5 DEF SameRow, UserSound, ProfileKept, IsActive
<1>6. ASSUME NEW u \in Users, NEW b \in BOOLEAN, Register(q, u, b)
      PROVE  (\A v \in Users : UserSound(v)') /\ HandlerSound(q)'
  <2>1. UNCHANGED <<cameBack, accountReq>> /\ r.pc = "idle"
    BY <1>6 DEF Register, AccountAt
  <2>2. UserSound(u)'
    <3>1. /\ accounts'[u].state = "active" /\ accounts'[u].scheduled = accounts[u].scheduled
          /\ consentLog'[u]["account"] = "nothing"
          /\ accounts'[u].consents["marketing"] = b /\ accounts'[u].consents["terms"] = TRUE
          /\ consentLog'[u]["marketing"] = IF b THEN "granted" ELSE "nothing"
      BY <1>6, AfterRegister
    <3>2. ProfileKept(u)' /\ IsActive(u)'
      BY <3>1 DEF ProfileKept, IsActive
    <3>3. accounts'[u].consents["marketing"] = (consentLog'[u]["marketing"] = "granted")
      BY <3>1
    <3>4. QED BY <1>2, <2>1, <3>1, <3>2, <3>3 DEF UserSound
  <2>3. \A v \in Users \ {u} : UserSound(v)'
    BY <1>5, <1>6, <2>1, AfterRegister
  <2>4. QED BY <1>4, <2>1, <2>2, <2>3
<1>7. ASSUME NEW u \in Users, NEW step \in {"consent", "reconsent", "login", "delete"},
             NEW old \in [ConsentType -> BOOLEAN], NEW dated \in BOOLEAN,
             Begin(q, u, step, old, dated),
             step # "login" => old = accounts[u].consents,
             step = "login" /\ ~dated => accounts[u].scheduled = "no"
      PROVE  (\A v \in Users : UserSound(v)') /\ HandlerSound(q)'
  <2>1. IsActive(u) /\ UNCHANGED <<accounts, consentLog, cameBack>>
    BY <1>7, AfterBegun
  <2>2. /\ accountReq'[q].pc = step /\ accountReq'[q].user = u
        /\ accountReq'[q].old = old /\ accountReq'[q].dated = dated
    BY <1>7, BegunRequest
  <2>3. QED BY <1>3, <1>7, <2>1, <2>2 DEF HandlerSound, IsActive
<1>8. ASSUME NEW u \in Users, UpdateConsent(q, u) \/ Reconsent(q, u) \/ Login(q, u) \/ DeleteAccount(q, u)
      PROVE  (\A v \in Users : UserSound(v)') /\ HandlerSound(q)'
  <2>0. PICK b \in BOOLEAN : b = (accounts[u].scheduled # "no")
    OBVIOUS
  <2>1. accounts[u].consents \in [ConsentType -> BOOLEAN] /\ NoAccount.consents \in [ConsentType -> BOOLEAN]
    BY AccountFacts, AccountIdleType DEF AccountRow
  <2>2. CASE UpdateConsent(q, u)
    BY <1>7, <2>1, <2>2 DEF UpdateConsent
  <2>3. CASE Reconsent(q, u)
    BY <1>7, <2>1, <2>3 DEF Reconsent
  <2>4. CASE Login(q, u)
    BY <1>7, <2>0, <2>1, <2>4 DEF Login
  <2>5. CASE DeleteAccount(q, u)
    BY <1>7, <2>1, <2>5 DEF DeleteAccount
  <2>6. QED BY <1>8, <2>2, <2>3, <2>4, <2>5
<1>9. CASE ConsentUpdated(q) \/ Reconsented(q)
  <2> DEFINE u == r.user
  <2>1. r.pc \in {"consent", "reconsent"}
    BY <1>9 DEF ConsentUpdated, Reconsented, AccountAt
  <2>2. /\ u \in Users /\ r.old = accounts[u].consents
        /\ consentLog[u]["account"] = "nothing" /\ accounts[u].state = "active"
        /\ ProfileKept(u) /\ UserSound(u)
    BY <1>2, <2>1 DEF HandlerSound, UserSound, IsActive, ProfileKept
  <2>3. /\ UNCHANGED cameBack /\ \A v \in Users \ {u} : SameRow(v)
        /\ accounts'[u].state = accounts[u].state /\ accounts'[u].scheduled = accounts[u].scheduled
        /\ consentLog'[u]["account"] = consentLog[u]["account"]
        /\ accountReq'[q].pc = "idle"
    BY <1>9, AfterConsent
  <2> HIDE DEF u
  <2>4. accounts'[u].consents["terms"] = TRUE
    <3>1. CASE ConsentUpdated(q)
      <4>1. accounts'[u].consents["terms"] = accounts[u].consents["terms"]
        BY <3>1, AfterConsent DEF u
      <4>2. QED BY <2>2, <4>1 DEF UserSound
    <3>2. CASE Reconsented(q)
      <4>1. accounts'[u].consents["terms"] = (accounts[u].consents["terms"] \/ ~r.old["terms"])
        BY <3>2, AfterConsent DEF u
      <4>2. QED BY <2>2, <4>1
    <3>3. QED BY <1>9, <3>1, <3>2
  <2>5. accounts'[u].consents["marketing"] = (consentLog'[u]["marketing"] = "granted")
    <3>1. CASE ConsentUpdated(q)
      <4>1. /\ accounts'[u].consents["marketing"] = (~r.old["marketing"])
            /\ consentLog'[u]["marketing"] = IF ~r.old["marketing"] THEN "granted" ELSE "withdrawn"
        BY <3>1, AfterConsent DEF u
      <4>2. QED BY <4>1
    <3>2. CASE Reconsented(q)
      <4>1. /\ accounts'[u].consents["marketing"] = accounts[u].consents["marketing"]
            /\ consentLog'[u]["marketing"] = consentLog[u]["marketing"]
        BY <3>2, AfterConsent DEF u
      <4>2. QED BY <2>2, <4>1 DEF UserSound
    <3>3. QED BY <1>9, <3>1, <3>2
  <2>6. ASSUME NEW w, w = u PROVE UserSound(w)'
    <3>1. UserSound(w) /\ w \in Users
      BY <2>2, <2>6
    <3>2. /\ accounts'[w].state = "active" /\ accounts'[w].scheduled = accounts[w].scheduled
          /\ consentLog'[w]["account"] = "nothing"
          /\ accounts'[w].consents["terms"] = TRUE
          /\ accounts'[w].consents["marketing"] = (consentLog'[w]["marketing"] = "granted")
          /\ UNCHANGED cameBack
      BY <2>2, <2>3, <2>4, <2>5, <2>6
    <3>3. ProfileKept(w)' /\ IsActive(w)'
      BY <3>2 DEF ProfileKept, IsActive
    <3>4. QED BY <3>1, <3>2, <3>3 DEF UserSound
  <2>7. QED BY <1>4, <1>5, <2>3, <2>6
<1>10. CASE LoggedIn(q)
  <2>1. PICK u, dated : u = r.user /\ dated = r.dated
    OBVIOUS
  <2>2. r.pc = "login"
    BY <1>10 DEF LoggedIn, AccountAt
  <2>3. /\ u \in Users /\ dated \in BOOLEAN /\ cameBack' = cameBack \cup {u}
        /\ UNCHANGED consentLog /\ \A v \in Users \ {u} : SameRow(v)
        /\ accounts'[u].state = accounts[u].state
        /\ accounts'[u].consents = accounts[u].consents
        /\ accounts'[u].scheduled = IF dated THEN "no" ELSE accounts[u].scheduled
        /\ accountReq'[q].pc = "idle"
    BY <1>10, <2>1, AfterLogin
  <2>4. IsActive(u) /\ (~dated => accounts[u].scheduled = "no") /\ UserSound(u)
    BY <1>2, <2>1, <2>2, <2>3 DEF HandlerSound
  <2>5. UserSound(u)'
    BY <2>3, <2>4, UserKept
  <2>6. \A v \in Users \ {u} : UserSound(v)'
    BY <1>2, <2>3 DEF SameRow, UserSound, ProfileKept, IsActive
  <2>7. QED BY <1>4, <2>3, <2>5, <2>6
<1>11. CASE AccountDeleted(q)
  <2>1. PICK u, old : u = r.user /\ old = r.old
    OBVIOUS
  <2>2. r.pc = "delete"
    BY <1>11 DEF AccountDeleted, AccountAt
  <2>3. /\ u \in Users /\ UNCHANGED cameBack /\ \A v \in Users \ {u} : SameRow(v)
        /\ accounts'[u].state = "anonymous" /\ accounts'[u].scheduled = accounts[u].scheduled
        /\ \A type \in ConsentType :
             accounts'[u].consents[type] = (accounts[u].consents[type] /\ ~old[type])
        /\ consentLog'[u]["account"] = "deleted" /\ accountReq'[q].pc = "idle"
    BY <1>11, <2>1, AfterDeletion
  <2>4. old = accounts[u].consents /\ UserSound(u)
    BY <1>2, <2>1, <2>2, <2>3 DEF HandlerSound
  <2>5. accounts'[u].consents["marketing"] = FALSE /\ accounts'[u].consents["terms"] = FALSE
    BY <2>3, <2>4 DEF ConsentType
  <2>6. u \in cameBack' => accounts'[u].scheduled = "no"
    BY <2>3, <2>4 DEF UserSound
  <2>7. UserSound(u)'
    BY <2>3, <2>5, <2>6, UserGone
  <2>8. QED BY <1>4, <1>5, <2>3, <2>7
<1>12. ASSUME NEW u \in Users, AnonymizeDue(q, u)
       PROVE  (\A v \in Users : UserSound(v)') /\ HandlerSound(q)'
  <2>1. PICK warn : warn = r.warn
    OBVIOUS
  <2>2. /\ cameBack' = cameBack \ warn /\ u \in r.due /\ accountReq'[q].pc = "sweep"
        /\ accountReq'[q].due = r.due \ {u}
    BY <1>12, <2>1, AfterAnonymized
  <2>9. /\ \A v \in Users \cap warn : accounts'[v].scheduled = "ahead"
        /\ \A v \in Users \ warn : accounts'[v].scheduled = accounts[v].scheduled
    BY <1>12, <2>1, AfterAnonymized
  <2>10. \A v \in Users \ {u} : /\ accounts'[v].state = accounts[v].state
                                /\ accounts'[v].consents = accounts[v].consents
                                /\ consentLog'[v] = consentLog[v]
    BY <1>12, <2>1, AfterAnonymized
  <2>11. /\ accounts'[u].state = "anonymous" /\ consentLog'[u]["account"] = "anonymized_inactive"
         /\ accounts'[u].consents["marketing"] = FALSE /\ accounts'[u].consents["terms"] = FALSE
    BY <1>12, <2>1, AfterAnonymized
  <2>3. r.pc = "sweep" /\ r \in AccountRequest
    BY <1>12, AccountFacts DEF AnonymizeDue, AccountAt
  <2>4. \A v \in r.due : accounts[v].scheduled # "no" /\ v \in Users
    BY <1>2, <2>3 DEF HandlerSound, AccountRequest
  <2>5. HandlerSound(q)'
    <3>1. \A v \in accountReq'[q].due : accounts'[v].scheduled # "no"
      BY <2>2, <2>4, <2>9
    <3>2. QED BY <2>2, <3>1 DEF HandlerSound
  <2>6. UserSound(u)'
    <3>1. u \notin cameBack
      BY <1>2, <2>2, <2>4 DEF UserSound
    <3>2. u \notin cameBack'
      BY <2>2, <3>1
    <3>3. QED BY <2>11, <3>2, UserGone
  <2>7. ASSUME NEW v \in Users \ {u} PROVE UserSound(v)'
    <3>1. UserSound(v) /\ (v \in cameBack' => v \in cameBack /\ v \notin warn)
      BY <1>2, <2>2
    <3>2. v \in cameBack' => accounts'[v].scheduled = "no"
      BY <2>9, <3>1 DEF UserSound
    <3>3. QED BY <2>10, <3>1, <3>2, UserKept
  <2>8. QED BY <2>5, <2>6, <2>7
<1>13. CASE Sweep(q)
  <2>1. /\ UNCHANGED <<accounts, consentLog, cameBack>> /\ accountReq'[q].pc = "sweep"
        /\ \A u \in accountReq'[q].due : accounts[u].scheduled = "due"
    BY <1>13, AfterSweep
  <2>2. QED BY <1>3, <2>1 DEF HandlerSound
<1>14. CASE SweepEnds(q) \/ AccountDies(q)
  BY <1>3, <1>4, <1>14, AfterEnd
<1>15. QED BY <1>6, <1>8, <1>9, <1>10, <1>11, <1>12, <1>13, <1>14 DEF AccountStep

LEMMA AccountsInitInv ==
  ASSUME AccountsInit
  PROVE  AccountsTyped /\ AccountsInv
<1>1. \A q \in workers : accountReq[q] = AccountIdle /\ AccountIdle.pc = "idle"
  BY AccountsInitTyped, AccountFacts, AccountIdleType DEF AccountsInit
<1>2. \A q \in workers : HandlerSound(q)
  BY <1>1 DEF HandlerSound
<1>3. ASSUME NEW u \in Users PROVE UserSound(u)
  <2>1. CASE u \in Scheduled
    <3>1. accounts[u] = Warned /\ consentLog[u] = TermsLog /\ u \notin cameBack
      BY <2>1 DEF AccountsInit
    <3>2. /\ Warned.state = "active" /\ Warned.scheduled = "ahead"
          /\ Warned.consents = [NoAccount.consents EXCEPT !["terms"] = TRUE]
      BY DEF Warned, NoAccount
    <3>3. /\ NoAccount.consents["marketing"] = FALSE
          /\ NoAccount.consents \in [ConsentType -> BOOLEAN]
          /\ "terms" \in ConsentType /\ "marketing" \in ConsentType
      BY AccountIdleType DEF NoAccount, ConsentType
    <3>4. Warned.consents["marketing"] = FALSE /\ Warned.consents["terms"] = TRUE
      BY <3>2, <3>3
    <3>5. /\ TermsLog["account"] = "nothing" /\ TermsLog["marketing"] = "nothing"
      BY DEF TermsLog, NoLog
    <3>6. ProfileKept(u)
      BY <3>1, <3>2, <3>5 DEF ProfileKept
    <3>7. (ProfileKept(u) /\ consentLog[u]["marketing"] = "granted") = FALSE /\ ProfileKept(u) = TRUE
      BY <3>1, <3>5, <3>6
    <3>8. QED BY <3>1, <3>4, <3>5, <3>7 DEF UserSound
  <2>2. CASE u \notin Scheduled
    <3>1. accounts[u] = NoAccount /\ consentLog[u] = NoLog /\ u \notin cameBack
      BY <2>2 DEF AccountsInit
    <3>2. /\ NoAccount.state = "none" /\ NoAccount.scheduled = "no"
          /\ NoAccount.consents["marketing"] = FALSE /\ NoAccount.consents["terms"] = FALSE
          /\ NoLog["account"] = "nothing"
      BY DEF NoAccount, NoLog, ConsentType
    <3>3. ~ProfileKept(u)
      BY <3>1, <3>2 DEF ProfileKept
    <3>4. (ProfileKept(u) /\ consentLog[u]["marketing"] = "granted") = FALSE /\ ProfileKept(u) = FALSE
      BY <3>3
    <3>5. QED BY <3>1, <3>2, <3>4 DEF UserSound
  <2>3. QED BY <2>1, <2>2
<1>4. QED BY <1>2, <1>3, AccountsInitTyped DEF AccountsInv

LEMMA AccountsNextInv ==
  ASSUME AccountsTyped, AccountsInv, [AccountsNext]_accountVars
  PROVE  AccountsTyped' /\ AccountsInv'
<1>1. CASE UNCHANGED accountVars
  BY <1>1, AccountsNextTyped
     DEF accountVars, AccountsInv, Serial, UserSound, HandlerSound, ProfileKept, IsActive
<1>2. ASSUME UNCHANGED workers, NEW u \in Users, Idles(u) \/ GracePasses(u) PROVE AccountsInv'
  <2>1. /\ UNCHANGED <<consentLog, cameBack, accountReq>>
        /\ \A v \in Users : /\ accounts'[v].state = accounts[v].state
                            /\ accounts'[v].consents = accounts[v].consents
    BY <1>2, AfterTime
  <2>2. ASSUME NEW v \in Users
        PROVE  (accounts'[v].scheduled = "no") = (accounts[v].scheduled = "no")
    BY <1>2, AfterTime
  <2>3. SUFFICES ASSUME Serial, \A v \in Users : UserSound(v), \A q \in workers : HandlerSound(q)
                 PROVE  (\A v \in Users : UserSound(v)') /\ (\A q \in workers : HandlerSound(q)')
    BY <1>2 DEF AccountsInv, Serial
  <2>4. ASSUME NEW v \in Users PROVE UserSound(v)'
    BY <2>1, <2>2, <2>3 DEF UserSound, ProfileKept, IsActive
  <2>5. ASSUME NEW q \in workers PROVE HandlerSound(q)'
    <3>1. HandlerSound(q) /\ accountReq[q] \in AccountRequest /\ accountReq'[q] = accountReq[q]
      BY <2>1, <2>3, AccountFacts
    <3>2. \A v \in accountReq[q].due : v \in Users
      BY <3>1 DEF AccountRequest
    <3>3. accountReq[q].user \in Users
      BY <3>1 DEF AccountRequest
    <3>4. QED BY <2>1, <2>2, <3>1, <3>2, <3>3 DEF HandlerSound, IsActive
  <2>6. QED BY <2>4, <2>5
<1>3. QED BY <1>1, <1>2, AccountsNextTyped, AccountsStep DEF AccountsNext

LEMMA AccountsAlwaysInv == AccountsSpec => [](AccountsTyped /\ AccountsInv)
<1>1. AccountsInit => AccountsTyped /\ AccountsInv
  BY AccountsInitInv
<1>2. AccountsTyped /\ AccountsInv /\ [AccountsNext]_accountVars => AccountsTyped' /\ AccountsInv'
  BY AccountsNextInv
<1>3. QED BY <1>1, <1>2, PTL DEF AccountsSpec

\* While handlers run one at a time, a user's consents are the ones that the log
\* shows, whatever sequence of consents, deletions and clean-ups led there.
THEOREM ConsentsAreLogged == AccountsSpec => []ConsentMatchesLog
<1>1. AccountsTyped /\ AccountsInv => ConsentMatchesLog
  BY DEF AccountsInv, UserSound, ProfileKept, ConsentMatchesLog
<1>2. QED BY <1>1, AccountsAlwaysInv, PTL

\* While handlers run one at a time, the job anonymises nobody who has come back
\* since the last warning that was stored.
THEOREM OnlyAbsentAnonymized == AccountsSpec => []AnonymizedStayedAway
<1>1. AccountsTyped /\ AccountsInv => AnonymizedStayedAway
  BY DEF AccountsInv, UserSound, AnonymizedStayedAway
<1>2. QED BY <1>1, AccountsAlwaysInv, PTL

-----------------------------------------------------------------------------
(* The monitor of failed logins *)

\* The register has no gaps, and a number in hand is at most the next one.
Numbered(n) ==
  /\ DOMAIN incidents = 1..n
  /\ \A q \in workers : watchReq[q].number <= n + 1 /\ watchReq[q].number <= MaxIncidents
WatchTyped ==
  /\ workers \in WorkerSets /\ SecurityWatchTypeOK
  /\ \E n \in 0..MaxIncidents : Numbered(n)

\* A monitor is never late, as nobody waits for its pass but the time; and all
\* its alerts are of the present.
OnTime(q) ==
  /\ watchTime <= due[q] /\ due[q] <= watchTime + WATCH_PERIOD
  /\ \A a \in watchReq[q].alerts : a.at = watchTime

Soon(t) == t..t + WATCH_PERIOD
Attack(s, t) ==
  Failed(s, t - (WATCH_WINDOW - WATCH_PERIOD), t) > SECURITY_BRUTE_FORCE_THRESHOLD
Filed(s, t) == \E n \in DOMAIN incidents : incidents[n].about = s /\ incidents[n].at \in Soon(t)
\* An attack that a process is to file by the end of the period: it has an
\* alert about it, its next pass is due by then, or it began one before the
\* last of the failures.
ToFile(q, s, t) ==
  \/ \E a \in watchReq[q].alerts : a.about = s /\ a.at \in Soon(t)
  \/ ~Watching(q) /\ due[q] <= t + WATCH_PERIOD
  \/ Watching(q) /\ t = watchTime
Answered(q, s, t) == Filed(s, t) \/ cut[q] \cap Soon(t) # {} \/ ToFile(q, s, t)
WatchInv ==
  \A q \in workers :
    OnTime(q) /\ \A s \in Subnets, t \in 0..watchTime : Attack(s, t) => Answered(q, s, t)

LEMMA WatchNumbers ==
  /\ SECURITY_BRUTE_FORCE_THRESHOLD \in Nat /\ WATCH_WINDOW \in Nat /\ MaxWatchTime \in Nat
  /\ MaxIncidents \in Nat /\ MaxFailures \in Nat /\ LastFailure \in Nat
  /\ WATCH_PERIOD \in Nat /\ 1 <= WATCH_PERIOD /\ WATCH_PERIOD <= WATCH_WINDOW
BY SecurityWatchAssumption

LEMMA WatchIdleType ==
  /\ WatchIdle \in WatchRequest /\ WatchIdle.alerts = {} /\ WatchIdle.number = 0
  /\ WatchIdle.incident \in Incident /\ WatchIdle.incident.at = 0
BY WatchNumbers DEF WatchIdle, WatchRequest, Incident

LEMMA WatchFacts ==
  ASSUME WatchTyped
  PROVE  /\ workers \subseteq Worker
         /\ \A q \in workers : watchReq[q] \in WatchRequest
         /\ \A q \in workers : due[q] \in Nat
         /\ watchTime \in Nat /\ watchTime <= MaxWatchTime
         /\ \A s \in Subnets : /\ failures[s] \in Seq(0..LastFailure)
                               /\ DOMAIN failures[s] = 1..Len(failures[s])
                               /\ Len(failures[s]) \in Nat
                               /\ \A k \in DOMAIN failures[s] : failures[s][k] \in Nat
<1>1. /\ workers \subseteq Worker
      /\ due \in [Worker -> 0..MaxWatchTime + WATCH_PERIOD]
      /\ watchReq \in [Worker -> WatchRequest] /\ watchTime \in 0..MaxWatchTime
      /\ \A s \in Subnets : failures[s] \in Seq(0..LastFailure)
  BY WorkersCounted DEF WatchTyped, SecurityWatchTypeOK
<1>2. \A s \in Subnets : /\ DOMAIN failures[s] = 1..Len(failures[s])
                         /\ Len(failures[s]) \in Nat
                         /\ \A k \in DOMAIN failures[s] : failures[s][k] \in 0..LastFailure
  BY <1>1, LenProperties, ElementOfSeq
<1>3. QED BY <1>1, <1>2, WatchNumbers

LEMMA WatchGotoType ==
  ASSUME WatchTyped, NEW q \in workers, NEW r, WatchGoto(q, r)
  PROVE  /\ watchReq'[q] = r /\ \A p \in workers \ {q} : watchReq'[p] = watchReq[p]
         /\ r \in WatchRequest => watchReq' \in [Worker -> WatchRequest]
BY WatchFacts DEF WatchTyped, SecurityWatchTypeOK, WatchGoto

LEMMA PassEndsType ==
  ASSUME WatchTyped, NEW q \in workers, NEW next, PassEnds(q, next)
  PROVE  /\ WatchGoto(q, WatchIdle)
         /\ due'[q] = next /\ \A p \in workers \ {q} : due'[p] = due[p]
         /\ next \in 0..MaxWatchTime + WATCH_PERIOD
              => due' \in [Worker -> 0..MaxWatchTime + WATCH_PERIOD]
BY WatchFacts DEF WatchTyped, SecurityWatchTypeOK, PassEnds

LEMMA NextNumberIs ==
  ASSUME NEW n \in Nat, DOMAIN incidents = 1..n
  PROVE  NextNumber = n + 1
<1>1. Cardinality(1..n) = n
  BY FS_Interval
<1>2. QED BY <1>1 DEF NextNumber

\* A longer time has at least as many failures.
LEMMA FailedMore ==
  ASSUME WatchTyped, NEW s \in Subnets, NEW a \in Int, NEW b \in Int, NEW c \in Int, NEW d \in Int,
         c <= a, b <= d
  PROVE  /\ Failed(s, a, b) \in Nat /\ Failed(s, c, d) \in Nat
         /\ Failed(s, a, b) <= Failed(s, c, d)
<1> DEFINE A == {k \in DOMAIN failures[s] : a <= failures[s][k] /\ failures[s][k] <= b}
           C == {k \in DOMAIN failures[s] : c <= failures[s][k] /\ failures[s][k] <= d}
<1>1. A \subseteq C
  BY WatchFacts
<1>2. IsFiniteSet(DOMAIN failures[s])
  <2>1. DOMAIN failures[s] = 1..Len(failures[s]) /\ Len(failures[s]) \in Int
    BY WatchFacts
  <2>2. QED BY <2>1, FS_Interval
<1>3. IsFiniteSet(C)
  BY <1>2, FS_Subset
<1>4. Cardinality(A) \in Nat /\ Cardinality(C) \in Nat /\ Cardinality(A) <= Cardinality(C)
  BY <1>1, <1>3, NoMore
<1>5. QED BY <1>4 DEF Failed

\* A failure of now is none of an earlier time.
LEMMA FailedBefore ==
  ASSUME WatchTyped, NEW s \in Subnets, LoginFails(s), NEW u \in Subnets, NEW a \in Int, NEW t \in Nat,
         t < watchTime
  PROVE  Failed(u, a, t)' = Failed(u, a, t)
<1>1. CASE u # s
  <2>1. failures'[u] = failures[u]
    BY <1>1 DEF LoginFails, WatchTyped, SecurityWatchTypeOK
  <2>2. QED BY <2>1 DEF Failed
<1>2. CASE u = s
  <2>1. failures'[s] = Append(failures[s], watchTime)
    BY DEF LoginFails, WatchTyped, SecurityWatchTypeOK
  <2>2. failures[s] \in Seq(Nat) /\ watchTime \in Nat
    BY WatchFacts, SeqDef
  <2>3. /\ Len(failures'[s]) = Len(failures[s]) + 1 /\ DOMAIN failures'[s] = 1..Len(failures[s]) + 1
        /\ \A k \in 1..Len(failures[s]) : failures'[s][k] = failures[s][k]
        /\ failures'[s][Len(failures[s]) + 1] = watchTime
    BY <2>1, <2>2, AppendProperties, LenProperties
  <2>4. {k \in DOMAIN failures'[s] : a <= failures'[s][k] /\ failures'[s][k] <= t}
          = {k \in DOMAIN failures[s] : a <= failures[s][k] /\ failures[s][k] <= t}
    <3>1. DOMAIN failures[s] = 1..Len(failures[s]) /\ Len(failures[s]) \in Nat
      BY WatchFacts
    <3>2. ~(failures'[s][Len(failures[s]) + 1] <= t)
      BY <2>2, <2>3
    <3>3. \A k \in DOMAIN failures'[s] :
            k \in DOMAIN failures[s] \/ k = Len(failures[s]) + 1
      BY <2>3, <3>1
    <3>4. DOMAIN failures[s] \subseteq DOMAIN failures'[s]
      BY <2>3, <3>1
    <3>5. \A k \in DOMAIN failures[s] : failures'[s][k] = failures[s][k]
      BY <2>3, <3>1
    <3>6. QED BY <3>2, <3>3, <3>4, <3>5
  <2>5. QED BY <1>2, <2>4 DEF Failed
<1>3. QED BY <1>1, <1>2

\* A step's tables and request are of their types, and the numbers have no gap.
LEMMA WatchStepTyped ==
  ASSUME WatchTyped, NEW q \in workers, WatchStep(q), UNCHANGED workers
  PROVE  WatchTyped'
<1> DEFINE r == watchReq[q]
<1>1. /\ r \in WatchRequest /\ r.alerts \in SUBSET Incident /\ r.number \in 0..MaxIncidents + 1
      /\ r.incident \in Incident
      /\ watchTime \in 0..MaxWatchTime
  BY WatchFacts DEF WatchRequest, WatchTyped, SecurityWatchTypeOK
<1>2. PICK n \in 0..MaxIncidents : Numbered(n)
  BY DEF WatchTyped
<1>3. NextNumber = n + 1
  BY <1>2, NextNumberIs, WatchNumbers DEF Numbered
\* A step that files nothing.
<1>4. ASSUME NEW s \in WatchRequest, WatchGoto(q, s), s.number <= n + 1, s.number <= MaxIncidents,
             due' \in [Worker -> 0..MaxWatchTime + WATCH_PERIOD],
             cut' \in [Worker -> SUBSET (0..MaxWatchTime)],
             UNCHANGED <<failures, incidents, watchTime>>
      PROVE  WatchTyped'
  <2>1. Numbered(n)'
    BY <1>2, <1>4, WatchGotoType DEF Numbered
  <2>2. watchReq' \in [Worker -> WatchRequest]
    BY <1>4, WatchGotoType
  <2>3. QED BY <1>4, <2>1, <2>2 DEF WatchTyped, SecurityWatchTypeOK
<1>5. /\ due \in [Worker -> 0..MaxWatchTime + WATCH_PERIOD]
      /\ cut \in [Worker -> SUBSET (0..MaxWatchTime)]
  BY DEF WatchTyped, SecurityWatchTypeOK
<1>6. ASSUME NEW next \in 0..MaxWatchTime + WATCH_PERIOD, PassEnds(q, next),
             cut' \in [Worker -> SUBSET (0..MaxWatchTime)],
             UNCHANGED <<failures, incidents, watchTime>>
      PROVE  WatchTyped'
  BY <1>4, <1>6, PassEndsType, WatchIdleType, WatchNumbers
<1>7. /\ watchTime \in 0..MaxWatchTime + WATCH_PERIOD
      /\ watchTime + WATCH_PERIOD \in 0..MaxWatchTime + WATCH_PERIOD
  BY <1>1, WatchNumbers
<1>8. CASE StartPass(q)
  <2>1. CASE Suspicious = {}
    BY <1>5, <1>6, <1>7, <1>8, <2>1 DEF StartPass
  <2>2. CASE Suspicious # {}
    <3>1. PICK alerts : alerts = {[about |-> s, at |-> watchTime] : s \in Suspicious}
      OBVIOUS
    <3>2. alerts \in SUBSET Incident
      BY <1>1, <3>1 DEF Suspicious, Incident
    <3>3. PICK s : s = [WatchIdle EXCEPT !.alerts = alerts]
      OBVIOUS
    <3>4. s \in WatchRequest /\ s.number = 0
      BY <3>2, <3>3, WatchIdleType DEF WatchRequest
    <3>5. WatchGoto(q, s) /\ UNCHANGED <<failures, incidents, watchTime, due, cut>>
      BY <1>8, <2>2, <3>1, <3>3 DEF StartPass
    <3>6. QED BY <1>4, <1>5, <3>4, <3>5, WatchNumbers
  <2>3. QED BY <2>1, <2>2
<1>9. ASSUME NEW incident \in Incident, TakeNumber(q, incident) PROVE WatchTyped'
  <2>1. n + 1 <= MaxIncidents
    BY <1>3, <1>9 DEF TakeNumber
  <2>2. PICK s : s = [r EXCEPT !.number = n + 1, !.incident = incident]
    OBVIOUS
  <2>3. s \in WatchRequest /\ s.number = n + 1
    <3>1. n + 1 \in 0..MaxIncidents + 1
      BY <2>1, WatchNumbers
    <3>2. QED BY <1>1, <1>9, <2>2, <3>1 DEF WatchRequest
  <2>4. WatchGoto(q, s) /\ UNCHANGED <<failures, incidents, watchTime, due, cut>>
    BY <1>3, <1>9, <2>2 DEF TakeNumber
  <2>5. QED BY <1>4, <1>5, <2>1, <2>3, <2>4
<1>10. CASE NumberAlert(q) \/ ReportIncident(q)
  BY <1>1, <1>9, <1>10, WatchIdleType DEF NumberAlert, ReportIncident
<1>11. CASE FileIncident(q)
  <2>1. r.number # 0 /\ r.number \notin 1..n
    BY <1>2, <1>11 DEF FileIncident, Filing, NumberTaken, Numbered
  <2>2. r.number = n + 1 /\ n + 1 <= MaxIncidents
    BY <1>1, <1>2, <2>1, WatchNumbers DEF Numbered
  <2>3. /\ incidents' = [k \in DOMAIN incidents \cup {r.number} |->
                           IF k = r.number THEN r.incident ELSE incidents[k]]
        /\ UNCHANGED <<failures, watchTime, cut>>
    BY <1>11 DEF FileIncident
  <2>4. DOMAIN incidents' = 1..n + 1
    BY <1>2, <2>2, <2>3 DEF Numbered
  <2>5. \A k \in DOMAIN incidents' : incidents'[k] \in Incident
    <3>1. \A k \in DOMAIN incidents : incidents[k] \in Incident
      BY DEF WatchTyped, SecurityWatchTypeOK
    <3>2. QED BY <1>1, <2>3, <3>1
  <2>6. PICK s : s = [WatchIdle EXCEPT !.alerts = r.alerts \ {r.incident}]
    OBVIOUS
  <2>7. s \in WatchRequest /\ s.number = 0
    BY <1>1, <2>6, WatchIdleType DEF WatchRequest
  <2>8. /\ WatchGoto(q, WatchIdle) \/ WatchGoto(q, s)
        /\ due' \in [Worker -> 0..MaxWatchTime + WATCH_PERIOD]
    <3>1. PassEnds(q, watchTime + WATCH_PERIOD) \/ (WatchGoto(q, s) /\ due' = due)
      BY <1>11, <2>6 DEF FileIncident
    <3>2. QED BY <1>5, <1>7, <3>1, PassEndsType
  <2>9. watchReq' \in [Worker -> WatchRequest] /\ watchReq'[q].number = 0
        /\ \A p \in workers \ {q} : watchReq'[p] = watchReq[p]
    BY <2>7, <2>8, WatchGotoType, WatchIdleType
  <2>10. Numbered(n + 1)'
    <3>1. ASSUME NEW p \in workers
          PROVE  watchReq'[p].number <= n + 2 /\ watchReq'[p].number <= MaxIncidents
      <4>1. watchReq[p].number \in 0..MaxIncidents + 1
        BY WatchFacts DEF WatchRequest
      <4>2. watchReq[p].number <= n + 1 /\ watchReq[p].number <= MaxIncidents
        BY <1>2 DEF Numbered
      <4>3. QED BY <2>9, <4>1, <4>2, WatchNumbers
    <3>2. QED BY <2>4, <3>1 DEF Numbered
  <2>11. n + 1 \in 0..MaxIncidents
    BY <2>2, WatchNumbers
  <2>12. DOMAIN incidents' \in {1..k : k \in 0..MaxIncidents}
    BY <2>4, <2>11
  <2>13. QED BY <2>3, <2>5, <2>8, <2>9, <2>10, <2>11, <2>12 DEF WatchTyped, SecurityWatchTypeOK
<1>12. CASE RequestFails(q)
  BY <1>4, <1>5, <1>12, WatchIdleType, WatchNumbers DEF RequestFails
<1>13. CASE PassFails(q)
  <2>1. cut' \in [Worker -> SUBSET (0..MaxWatchTime)]
    BY <1>1, <1>5, <1>13 DEF PassFails
  <2>2. QED BY <1>6, <1>7, <1>13, <2>1 DEF PassFails
<1>14. CASE WatcherDies(q)
  BY <1>5, <1>6, <1>7, <1>14 DEF WatcherDies
<1>15. QED BY <1>8, <1>10, <1>11, <1>12, <1>13, <1>14 DEF WatchStep

LEMMA WatchNextTyped ==
  ASSUME WatchTyped, [SecurityWatchNext]_watchVars PROVE WatchTyped'
<1>1. CASE UNCHANGED watchVars
  BY <1>1 DEF watchVars, WatchTyped, SecurityWatchTypeOK, Numbered
<1>2. CASE WatchTick /\ UNCHANGED workers
  <2>1. watchTime + 1 \in 0..MaxWatchTime
    BY <1>2, WatchFacts, WatchNumbers DEF WatchTick
  <2>2. QED BY <1>2, <2>1 DEF WatchTick, WatchTyped, SecurityWatchTypeOK, Numbered
<1>3. ASSUME NEW s \in Subnets, LoginFails(s), UNCHANGED workers PROVE WatchTyped'
  <2>1. /\ failures'[s] = Append(failures[s], watchTime) /\ DOMAIN failures' = Subnets
        /\ \A u \in Subnets \ {s} : failures'[u] = failures[u]
        /\ UNCHANGED <<incidents, watchTime, due, cut, watchReq>>
    BY <1>3 DEF LoginFails, WatchTyped, SecurityWatchTypeOK
  <2>2. watchTime \in 0..LastFailure /\ failures[s] \in Seq(0..LastFailure)
        /\ Len(failures[s]) \in Nat /\ Len(failures[s]) + 1 <= MaxFailures
    BY <1>3, WatchFacts, WatchNumbers DEF LoginFails
  <2>3. failures'[s] \in Seq(0..LastFailure) /\ Len(failures'[s]) <= MaxFailures
    BY <2>1, <2>2, AppendProperties
  <2>4. \A u \in Subnets :
          failures'[u] \in Seq(0..LastFailure) /\ Len(failures'[u]) <= MaxFailures
    BY <2>1, <2>3 DEF WatchTyped, SecurityWatchTypeOK
  <2>5. QED BY <1>3, <2>1, <2>4 DEF WatchTyped, SecurityWatchTypeOK, Numbered
<1>4. QED BY <1>1, <1>2, <1>3, WatchStepTyped DEF SecurityWatchNext

LEMMA WatchInitTyped ==
  ASSUME SecurityWatchInit PROVE WatchTyped
<1>1. /\ \A s \in Subnets : failures[s] = <<>> /\ DOMAIN failures = Subnets
      /\ workers \in WorkerSets /\ watchTime = 0 /\ incidents = <<>>
  BY DEF SecurityWatchInit, WorkersInit
<1>2. \A s \in Subnets : failures[s] \in Seq(0..LastFailure) /\ Len(failures[s]) <= MaxFailures
  <2>1. <<>> \in Seq(0..LastFailure) /\ Len(<<>>) = 0
    BY EmptySeq
  <2>2. 0 <= MaxFailures
    BY WatchNumbers
  <2>3. ASSUME NEW s \in Subnets
        PROVE  failures[s] \in Seq(0..LastFailure) /\ Len(failures[s]) <= MaxFailures
    <3>1. failures[s] = <<>>
      BY <1>1
    <3>2. QED BY <2>1, <2>2, <3>1, Zenon
  <2>4. QED BY <2>3
<1>3. DOMAIN incidents = 1..0 /\ 0 \in 0..MaxIncidents
  BY <1>1, WatchNumbers
<1>4. /\ DOMAIN failures = Subnets /\ watchTime \in 0..MaxWatchTime
      /\ due \in [Worker -> 0..MaxWatchTime + WATCH_PERIOD]
      /\ cut \in [Worker -> SUBSET (0..MaxWatchTime)]
      /\ watchReq \in [Worker -> WatchRequest]
  BY WatchIdleType, WatchNumbers DEF SecurityWatchInit
<1>5. \A q \in workers : watchReq[q].number = 0
  BY <1>1, WorkersCounted, WatchIdleType DEF SecurityWatchInit
<1>6. Numbered(0)
  BY <1>3, <1>5, WatchNumbers DEF Numbered
<1>7. QED BY <1>1, <1>2, <1>3, <1>4, <1>6 DEF WatchTyped, SecurityWatchTypeOK

\* Failures, incidents, passes and requests have their types, and the register
\* has no gap: a number is never given twice, whoever counts at the same time.
THEOREM WatchTypeCorrect == SecurityWatchSpec => []SecurityWatchTypeOK
<1>1. SecurityWatchSpec => []WatchTyped
  BY WatchInitTyped, WatchNextTyped, PTL DEF SecurityWatchSpec
<1>2. WatchTyped => SecurityWatchTypeOK
  BY DEF WatchTyped
<1>3. QED BY <1>1, <1>2, PTL

-----------------------------------------------------------------------------
(* Attacks are filed *)

\* What an answer by one process says of another state: incidents stay, and so
\* does what the process hasn't touched.
LEMMA AnswerStays ==
  ASSUME NEW q \in workers, NEW s, NEW t,
         UNCHANGED <<workers, watchTime>>, watchReq'[q] = watchReq[q], due'[q] = due[q],
         cut[q] \subseteq cut'[q], Filed(s, t) => Filed(s, t)', Answered(q, s, t)
  PROVE  Answered(q, s, t)'
<1>1. Watching(q)' = Watching(q)
  BY DEF Watching
<1>2. CASE Filed(s, t)
  BY <1>2 DEF Answered
<1>3. CASE cut[q] \cap Soon(t) # {}
  BY <1>3 DEF Answered, Soon
<1>4. CASE ToFile(q, s, t)
  <2>1. ToFile(q, s, t)'
    BY <1>1, <1>4 DEF ToFile, Soon
  <2>2. QED BY <2>1 DEF Answered
<1>5. QED BY <1>2, <1>3, <1>4 DEF Answered

\* A step of one process.
LEMMA WatchAfter ==
  ASSUME WatchTyped, WatchInv, NEW q \in workers, NEW r, WatchGoto(q, r),
         UNCHANGED <<workers, failures, watchTime>>,
         \A p \in workers \ {q} : due'[p] = due[p] /\ cut[p] \subseteq cut'[p],
         \A n \in DOMAIN incidents : n \in DOMAIN incidents' /\ incidents'[n] = incidents[n],
         OnTime(q)',
         \A s \in Subnets, t \in 0..watchTime :
           Attack(s, t) /\ Answered(q, s, t) => Answered(q, s, t)'
  PROVE  WatchInv'
<1>1. \A s, t : Filed(s, t) => Filed(s, t)'
  BY DEF Filed, Soon
<1>2. \A s, t : Attack(s, t)' = Attack(s, t)
  BY DEF Attack, Failed
<1>3. ASSUME NEW p \in workers PROVE OnTime(p)'
  <2>1. CASE p = q
    BY <2>1
  <2>2. CASE p # q
    <3>1. watchReq'[p] = watchReq[p] /\ due'[p] = due[p]
      BY <2>2, WatchGotoType
    <3>2. QED BY <3>1 DEF WatchInv, OnTime
  <2>3. QED BY <2>1, <2>2
<1>4. ASSUME NEW p \in workers, NEW s \in Subnets, NEW t \in 0..watchTime, Attack(s, t)
      PROVE  Answered(p, s, t)'
  <2>1. Answered(p, s, t)
    BY <1>4 DEF WatchInv
  <2>2. CASE p = q
    BY <1>4, <2>1, <2>2
  <2>3. CASE p # q
    <3>1. watchReq'[p] = watchReq[p] /\ due'[p] = due[p] /\ cut[p] \subseteq cut'[p]
      BY <2>3, WatchGotoType
    <3>2. QED BY <1>1, <2>1, <3>1, AnswerStays
  <2>4. QED BY <2>2, <2>3
<1>5. \A p \in workers' : OnTime(p)'
  BY <1>3
<1>6. \A p \in workers', s \in Subnets, t \in 0..watchTime' : Attack(s, t)' => Answered(p, s, t)'
  BY <1>2, <1>4
<1>7. QED BY <1>5, <1>6 DEF WatchInv

\* An attack that was due for a pass is seen by it: what the period adds to the
\* attack's window is within the monitor's.
LEMMA AttackIsSeen ==
  ASSUME WatchTyped, NEW s \in Subnets, NEW t \in 0..watchTime, Attack(s, t),
         watchTime <= t + WATCH_PERIOD
  PROVE  s \in Suspicious
<1> DEFINE first == t - (WATCH_WINDOW - WATCH_PERIOD)
<1>1. /\ first \in Int /\ Since \in Int /\ t \in Int /\ watchTime \in Int
      /\ Since <= first /\ t <= watchTime
  BY WatchFacts, WatchNumbers DEF Since
<1>2. /\ Failed(s, first, t) \in Nat /\ Failed(s, Since, watchTime) \in Nat
      /\ Failed(s, first, t) <= Failed(s, Since, watchTime)
  BY <1>1, FailedMore
<1>3. Failed(s, first, t) > SECURITY_BRUTE_FORCE_THRESHOLD
  BY DEF Attack
<1>4. Failed(s, Since, watchTime) > SECURITY_BRUTE_FORCE_THRESHOLD
  BY <1>2, <1>3, WatchNumbers
<1>5. QED BY <1>4 DEF Suspicious

LEMMA WatchStepKeeps ==
  ASSUME WatchTyped, WatchInv, NEW q \in workers, WatchStep(q), UNCHANGED workers
  PROVE  WatchInv'
<1> DEFINE r == watchReq[q]
<1>1. /\ r \in WatchRequest /\ r.alerts \in SUBSET Incident /\ due[q] \in Nat /\ watchTime \in Nat
      /\ WatchIdle.alerts = {}
      /\ due \in [Worker -> 0..MaxWatchTime + WATCH_PERIOD]
      /\ cut \in [Worker -> SUBSET (0..MaxWatchTime)] /\ q \in Worker
  BY WatchFacts, WatchIdleType DEF WatchRequest, WatchTyped, SecurityWatchTypeOK
<1>2. /\ watchTime <= due[q] /\ due[q] <= watchTime + WATCH_PERIOD
      /\ \A a \in r.alerts : a.at = watchTime
  BY DEF WatchInv, OnTime
<1>3. \A t \in 0..watchTime : t \in Nat /\ t <= watchTime
  BY <1>1
\* A step that leaves the process with its alerts and its next pass.
<1>4. ASSUME NEW s, WatchGoto(q, s), s.alerts = r.alerts,
             UNCHANGED <<workers, failures, incidents, watchTime, due, cut>>
      PROVE  WatchInv'
  <2>1. watchReq'[q] = s
    BY <1>4, WatchGotoType
  <2>2. OnTime(q)'
    BY <1>2, <1>4, <2>1 DEF OnTime
  <2>3. Watching(q)' = Watching(q)
    BY <1>4, <2>1 DEF Watching
  <2>4. ASSUME NEW u \in Subnets, NEW t \in 0..watchTime, Answered(q, u, t)
        PROVE  Answered(q, u, t)'
    <3>1. Filed(u, t) => Filed(u, t)'
      BY <1>4 DEF Filed, Soon
    <3>2. ToFile(q, u, t) => ToFile(q, u, t)'
      BY <1>4, <2>1, <2>3 DEF ToFile, Soon
    <3>3. QED BY <1>4, <2>4, <3>1, <3>2 DEF Answered, Soon
  <2>5. QED BY <1>4, <2>2, <2>4, WatchAfter
\* A pass that ends, with what it was to file filed, or counted as cut.
<1>5. ASSUME NEW next \in {watchTime, watchTime + WATCH_PERIOD}, PassEnds(q, next),
             UNCHANGED <<workers, failures, watchTime>>,
             \A p \in workers \ {q} : cut'[p] = cut[p], cut[q] \subseteq cut'[q],
             \A n \in DOMAIN incidents : n \in DOMAIN incidents' /\ incidents'[n] = incidents[n],
             \A u \in Subnets, t \in 0..watchTime : Attack(u, t) /\ ToFile(q, u, t) =>
               Filed(u, t)' \/ cut'[q] \cap Soon(t) # {} \/ next <= t + WATCH_PERIOD
      PROVE  WatchInv'
  <2>1. /\ watchReq'[q] = WatchIdle /\ due'[q] = next /\ WatchGoto(q, WatchIdle)
        /\ \A p \in workers \ {q} : due'[p] = due[p]
    BY <1>5, PassEndsType, WatchGotoType
  <2>2. watchTime <= next /\ next <= watchTime + WATCH_PERIOD
    BY <1>1, <1>5, WatchNumbers
  <2>3. OnTime(q)'
    BY <1>1, <1>5, <2>1, <2>2 DEF OnTime
  <2>4. ~Watching(q)'
    BY <1>1, <2>1 DEF Watching
  <2>5. ASSUME NEW u \in Subnets, NEW t \in 0..watchTime, Attack(u, t), Answered(q, u, t)
        PROVE  Answered(q, u, t)'
    <3>1. Filed(u, t) => Filed(u, t)'
      BY <1>5 DEF Filed, Soon
    <3>2. cut[q] \cap Soon(t) # {} => cut'[q] \cap Soon(t) # {}
      BY <1>5
    <3>3. next <= t + WATCH_PERIOD => ToFile(q, u, t)'
      BY <2>1, <2>4 DEF ToFile
    <3>4. Soon(t)' = Soon(t)
      BY DEF Soon
    <3>5. QED BY <1>5, <2>5, <3>1, <3>2, <3>3, <3>4 DEF Answered
  <2>6. QED BY <1>5, <2>1, <2>3, <2>5, WatchAfter
<1>6. CASE StartPass(q)
  <2>1. /\ r = WatchIdle /\ due[q] = watchTime /\ ~Watching(q)
        /\ UNCHANGED <<failures, incidents, watchTime, cut>>
    BY <1>1, <1>2, <1>6 DEF StartPass, Resting, Watching
  <2>2. ASSUME NEW u \in Subnets, NEW t \in 0..watchTime, Attack(u, t), ToFile(q, u, t)
        PROVE  u \in Suspicious /\ watchTime <= t + WATCH_PERIOD
    <3>1. watchTime <= t + WATCH_PERIOD
      BY <1>1, <2>1, <2>2 DEF ToFile
    <3>2. QED BY <2>2, <3>1, AttackIsSeen
  <2>3. CASE Suspicious = {}
    <3>1. PassEnds(q, watchTime + WATCH_PERIOD)
      BY <1>6, <2>3 DEF StartPass
    <3>2. QED BY <1>5, <2>1, <2>2, <2>3, <3>1
  <2>4. CASE Suspicious # {}
    <3>1. PICK alerts : alerts = {[about |-> s, at |-> watchTime] : s \in Suspicious}
      OBVIOUS
    <3>2. PICK s : s = [WatchIdle EXCEPT !.alerts = alerts]
      OBVIOUS
    <3>3. WatchGoto(q, s) /\ due' = due
      BY <1>6, <2>4, <3>1, <3>2 DEF StartPass
    <3>4. watchReq'[q] = s /\ s.alerts = alerts
      BY <3>2, <3>3, WatchIdleType, WatchGotoType DEF WatchRequest
    <3>5. OnTime(q)'
      BY <1>2, <2>1, <3>1, <3>3, <3>4 DEF OnTime
    <3>6. ASSUME NEW u \in Subnets, NEW t \in 0..watchTime, Attack(u, t), Answered(q, u, t)
          PROVE  Answered(q, u, t)'
      <4>1. Filed(u, t) => Filed(u, t)'
        BY <2>1 DEF Filed, Soon
      <4>2. cut[q] \cap Soon(t) # {} => cut'[q] \cap Soon(t)' # {}
        BY <2>1 DEF Soon
      <4>3. ASSUME ToFile(q, u, t) PROVE ToFile(q, u, t)'
        <5>1. [about |-> u, at |-> watchTime] \in alerts /\ watchTime <= t + WATCH_PERIOD
          BY <2>2, <3>1, <3>6, <4>3
        <5>2. watchTime \in Soon(t)'
          BY <1>1, <1>3, <5>1, WatchNumbers DEF Soon
        <5>3. \E a \in watchReq'[q].alerts : a.about = u /\ a.at \in Soon(t)'
          BY <3>4, <5>1, <5>2
        <5>4. QED BY <5>3 DEF ToFile
      <4>4. QED BY <3>6, <4>1, <4>2, <4>3 DEF Answered
    <3>7. QED BY <2>1, <3>3, <3>5, <3>6, WatchAfter
  <2>5. QED BY <2>3, <2>4
<1>7. ASSUME NEW incident \in Incident, TakeNumber(q, incident) PROVE WatchInv'
  <2>1. PICK s : s = [r EXCEPT !.number = NextNumber, !.incident = incident]
    OBVIOUS
  <2>2. s.alerts = r.alerts
    BY <1>1, <2>1 DEF WatchRequest
  <2>3. WatchGoto(q, s) /\ UNCHANGED <<failures, incidents, watchTime, due, cut>>
    BY <1>7, <2>1 DEF TakeNumber
  <2>4. QED BY <1>4, <2>2, <2>3
<1>8. CASE NumberAlert(q) \/ ReportIncident(q)
  BY <1>1, <1>7, <1>8, WatchIdleType DEF NumberAlert, ReportIncident
<1>9. CASE FileIncident(q)
  <2> DEFINE rest == r.alerts \ {r.incident}
  <2>1. /\ r.number \notin DOMAIN incidents /\ UNCHANGED <<failures, watchTime, cut>>
        /\ incidents' = [k \in DOMAIN incidents \cup {r.number} |->
                           IF k = r.number THEN r.incident ELSE incidents[k]]
    BY <1>9 DEF FileIncident, NumberTaken
  <2>2. /\ \A n \in DOMAIN incidents : n \in DOMAIN incidents' /\ incidents'[n] = incidents[n]
        /\ r.number \in DOMAIN incidents' /\ incidents'[r.number] = r.incident
    BY <2>1
  \* The alert in hand is filed.
  <2>3. ASSUME NEW u \in Subnets, NEW t \in 0..watchTime, NEW a \in r.alerts,
               a.about = u, a.at \in Soon(t), a \notin rest
        PROVE  Filed(u, t)'
    BY <2>2, <2>3 DEF Filed, Soon
  <2>4. CASE rest = {} /\ Watching(q)
    <3>1. PassEnds(q, watchTime + WATCH_PERIOD)
      BY <1>9, <2>4 DEF FileIncident
    <3>2. ASSUME NEW u \in Subnets, NEW t \in 0..watchTime, ToFile(q, u, t)
          PROVE  Filed(u, t)' \/ watchTime + WATCH_PERIOD <= t + WATCH_PERIOD
      <4>1. ASSUME NEW a \in r.alerts, a.about = u, a.at \in Soon(t) PROVE Filed(u, t)'
        BY <2>3, <2>4, <4>1
      <4>2. t = watchTime => watchTime + WATCH_PERIOD <= t + WATCH_PERIOD
        BY <1>1, WatchNumbers
      <4>3. QED BY <2>4, <3>2, <4>1, <4>2 DEF ToFile
    <3>3. QED BY <1>5, <2>1, <2>2, <3>1, <3>2
  <2>5. CASE ~(rest = {} /\ Watching(q))
    <3>1. PICK s : s = [WatchIdle EXCEPT !.alerts = rest]
      OBVIOUS
    <3>2. WatchGoto(q, s) /\ due' = due
      BY <1>9, <2>5, <3>1 DEF FileIncident
    <3>3. watchReq'[q] = s /\ s.alerts = rest
      BY <3>1, <3>2, WatchIdleType, WatchGotoType DEF WatchRequest
    <3>4. OnTime(q)'
      BY <1>2, <2>1, <3>2, <3>3 DEF OnTime
    <3>5. Watching(q)' = Watching(q)
      BY <2>5, <3>3 DEF Watching
    <3>6. ASSUME NEW u \in Subnets, NEW t \in 0..watchTime, Answered(q, u, t)
          PROVE  Answered(q, u, t)'
      <4>1. Filed(u, t) => Filed(u, t)'
        BY <2>2 DEF Filed, Soon
      <4>2. cut[q] \cap Soon(t) # {} => cut'[q] \cap Soon(t)' # {}
        BY <2>1 DEF Soon
      <4>3. ASSUME NEW a \in r.alerts, a.about = u, a.at \in Soon(t)
            PROVE  Filed(u, t)' \/ ToFile(q, u, t)'
        BY <2>3, <3>3, <4>3 DEF ToFile, Soon
      <4>4. ToFile(q, u, t) => Filed(u, t)' \/ ToFile(q, u, t)'
        BY <2>1, <3>2, <3>5, <4>3 DEF ToFile
      <4>5. QED BY <3>6, <4>1, <4>2, <4>4 DEF Answered
    <3>7. QED BY <2>1, <2>2, <3>2, <3>4, <3>6, WatchAfter
  <2>6. QED BY <2>4, <2>5
<1>10. CASE RequestFails(q)
  <2>1. r.alerts = {}
    BY <1>10 DEF RequestFails, Watching
  <2>2. QED BY <1>1, <1>4, <1>10, <2>1 DEF RequestFails
\* A pass that dies or fails has alerts of now, or failures that came after it began.
<1>11. ASSUME NEW u \in Subnets, NEW t \in 0..watchTime, ToFile(q, u, t)
       PROVE  watchTime \in Soon(t) /\ watchTime <= t + WATCH_PERIOD
  BY <1>1, <1>2, <1>3, <1>11, WatchNumbers DEF ToFile, Soon
<1>12. CASE PassFails(q)
  <2>1. /\ PassEnds(q, watchTime + WATCH_PERIOD) /\ UNCHANGED <<failures, incidents, watchTime>>
        /\ cut' = [cut EXCEPT ![q] = @ \cup {watchTime}]
    BY <1>12 DEF PassFails
  <2>2. cut'[q] = cut[q] \cup {watchTime} /\ \A p \in workers \ {q} : cut'[p] = cut[p]
    BY <1>1, <2>1
  <2>3. QED BY <1>5, <1>11, <2>1, <2>2
<1>13. CASE WatcherDies(q)
  BY <1>5, <1>11, <1>13 DEF WatcherDies
<1>14. QED BY <1>6, <1>8, <1>9, <1>10, <1>12, <1>13 DEF WatchStep

LEMMA WatchNextKeeps ==
  ASSUME WatchTyped, WatchInv, [SecurityWatchNext]_watchVars
  PROVE  WatchInv'
<1>1. CASE UNCHANGED watchVars
  BY <1>1 DEF watchVars, WatchInv, OnTime, Attack, Failed, Answered, Filed, ToFile, Soon, Watching
<1>2. CASE WatchTick /\ UNCHANGED workers
  <2>1. /\ PassesMade /\ watchTime' = watchTime + 1 /\ watchTime \in Nat
        /\ UNCHANGED <<workers, failures, incidents, due, cut, watchReq>>
    BY <1>2, WatchFacts DEF WatchTick
  <2>2. ASSUME NEW q \in workers
        PROVE  /\ OnTime(q)' /\ ~Watching(q)
               /\ \A s \in Subnets, t \in 0..watchTime + 1 : Attack(s, t)' => Answered(q, s, t)'
    <3>1. watchReq[q].alerts = {} /\ due[q] > watchTime /\ due[q] \in Nat /\ ~Watching(q)
      BY <2>1, WatchFacts, WatchIdleType DEF PassesMade, Resting, Watching
    <3>2. due[q] <= watchTime + WATCH_PERIOD
      BY DEF WatchInv, OnTime
    <3>3. OnTime(q)'
      BY <2>1, <3>1, <3>2, WatchNumbers DEF OnTime
    <3>4. ~Watching(q)'
      BY <2>1, <3>1 DEF Watching
    <3>5. ASSUME NEW s \in Subnets, NEW t \in 0..watchTime + 1, Attack(s, t)'
          PROVE  Answered(q, s, t)'
      <4>1. CASE t = watchTime + 1
        <5>1. due'[q] <= t + WATCH_PERIOD
          BY <2>1, <3>1, <3>2, <4>1, WatchNumbers
        <5>2. QED BY <3>4, <5>1 DEF Answered, ToFile
      <4>2. CASE t # watchTime + 1
        <5>1. t \in 0..watchTime /\ Attack(s, t)
          BY <2>1, <3>5, <4>2 DEF Attack, Failed
        <5>2. Answered(q, s, t)
          BY <5>1 DEF WatchInv
        <5>3. ToFile(q, s, t) => ToFile(q, s, t)'
          BY <2>1, <3>1, <3>4 DEF ToFile
        <5>4. Filed(s, t) => Filed(s, t)'
          BY <2>1 DEF Filed, Soon
        <5>5. QED BY <2>1, <5>2, <5>3, <5>4 DEF Answered, Soon
      <4>3. QED BY <4>1, <4>2
    <3>6. QED BY <3>1, <3>3, <3>5
  <2>3. QED BY <2>1, <2>2 DEF WatchInv
<1>3. ASSUME NEW s0 \in Subnets, LoginFails(s0), UNCHANGED workers PROVE WatchInv'
  <2>1. UNCHANGED <<workers, incidents, watchTime, due, cut, watchReq>> /\ watchTime \in Nat
    BY <1>3, WatchFacts DEF LoginFails
  <2>2. ASSUME NEW q \in workers
        PROVE  /\ OnTime(q)'
               /\ \A s \in Subnets, t \in 0..watchTime : Attack(s, t)' => Answered(q, s, t)'
    <3>1. OnTime(q)
      BY DEF WatchInv
    <3>2. OnTime(q)'
      BY <2>1, <3>1 DEF OnTime
    <3>3. Watching(q)' = Watching(q)
      BY <2>1 DEF Watching
    <3>4. ASSUME NEW s \in Subnets, NEW t \in 0..watchTime, Attack(s, t)' PROVE Answered(q, s, t)'
      <4>1. CASE t = watchTime
        <5>1. ToFile(q, s, t)'
          BY <2>1, <3>1, <3>3, <4>1 DEF ToFile, OnTime
        <5>2. QED BY <5>1 DEF Answered
      <4>2. CASE t # watchTime
        <5>1. t \in Nat /\ t < watchTime /\ t - (WATCH_WINDOW - WATCH_PERIOD) \in Int
          BY <2>1, <4>2, WatchNumbers
        <5>2. Failed(s, t - (WATCH_WINDOW - WATCH_PERIOD), t)'
                = Failed(s, t - (WATCH_WINDOW - WATCH_PERIOD), t)
          BY <1>3, <5>1, FailedBefore
        <5>3. Attack(s, t)
          BY <3>4, <5>2 DEF Attack
        <5>4. Answered(q, s, t)
          BY <5>3 DEF WatchInv
        <5>5. Filed(s, t) => Filed(s, t)'
          BY <2>1 DEF Filed, Soon
        <5>6. QED BY <2>1, <5>4, <5>5, AnswerStays
      <4>3. QED BY <4>1, <4>2
    <3>5. QED BY <3>2, <3>4
  <2>3. QED BY <2>1, <2>2 DEF WatchInv
<1>4. QED BY <1>1, <1>2, <1>3, WatchStepKeeps DEF SecurityWatchNext

LEMMA WatchStarts == ASSUME SecurityWatchInit, WatchTyped PROVE WatchInv
<1>1. \A q \in workers : watchReq[q] = WatchIdle /\ due[q] = 0 /\ watchTime = 0
  BY WatchFacts DEF SecurityWatchInit
<1>2. ASSUME NEW q \in workers, NEW s \in Subnets, NEW t \in 0..watchTime PROVE Answered(q, s, t)
  <2>1. ~Watching(q)
    BY <1>1, WatchIdleType DEF Watching
  <2>2. due[q] <= t + WATCH_PERIOD
    BY <1>1, <1>2, WatchNumbers
  <2>3. QED BY <2>1, <2>2 DEF Answered, ToFile
<1>3. \A q \in workers : OnTime(q)
  BY <1>1, WatchIdleType, WatchNumbers DEF OnTime
<1>4. QED BY <1>2, <1>3 DEF WatchInv

\* Failed logins of a subnet that exceed the threshold within the window, less
\* the period between two passes, have an incident about them when the period
\* is over, however the processes interleave, take each other's numbers or die,
\* unless every one of them had a pass that failed in it.
THEOREM AttacksAreFiled == SecurityWatchSpec => []AttacksFiled
<1>1. SecurityWatchSpec => [](WatchTyped /\ WatchInv)
  BY WatchInitTyped, WatchNextTyped, WatchStarts, WatchNextKeeps, PTL DEF SecurityWatchSpec
<1>2. WatchTyped /\ WatchInv => AttacksFiled
  <2>1. ASSUME WatchTyped, WatchInv, NEW s \in Subnets, NEW t \in 0..watchTime - WATCH_PERIOD,
               t + WATCH_PERIOD < watchTime \/ PassesMade, Attack(s, t),
               NEW q \in workers, cut[q] \cap Soon(t) = {}
        PROVE  Filed(s, t)
    <3>1. watchTime \in Nat /\ t \in 0..watchTime /\ t + WATCH_PERIOD <= watchTime
          /\ due[q] \in Nat /\ t # watchTime
      BY <2>1, WatchFacts, WatchNumbers
    <3>2. Answered(q, s, t) /\ OnTime(q)
      BY <2>1, <3>1 DEF WatchInv
    <3>3. ~ToFile(q, s, t)
      <4>1. CASE t + WATCH_PERIOD < watchTime
        <5>1. ~(watchTime <= t + WATCH_PERIOD) /\ ~(due[q] <= t + WATCH_PERIOD)
          BY <3>1, <3>2, <4>1, WatchNumbers DEF OnTime
        <5>2. ~(watchTime \in Soon(t))
          BY <5>1 DEF Soon
        <5>3. QED BY <3>1, <3>2, <5>1, <5>2 DEF ToFile, OnTime
      <4>2. CASE PassesMade
        <5>1. watchReq[q].alerts = {} /\ due[q] > watchTime /\ ~Watching(q)
          BY <4>2, WatchIdleType DEF PassesMade, Resting, Watching
        <5>2. QED BY <3>1, <5>1, WatchNumbers DEF ToFile
      <4>3. QED BY <2>1, <4>1, <4>2
    <3>4. QED BY <2>1, <3>2, <3>3 DEF Answered
  <2>2. QED BY <2>1 DEF AttacksFiled, Attack, Soon, Filed
<1>3. QED BY <1>1, <1>2, PTL
=============================================================================
