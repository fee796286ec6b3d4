------------------------------- MODULE TwoFactor -------------------------------
(***************************************************************************)
(* The second factor of a login: TOTPService and TrustedDeviceService.     *)
(* Users share nothing: the module is about one.                           *)
(*                                                                         *)
(* A handler reads the user and its rows, and commits what it decided on   *)
(* in one transaction.  A login that trusts its device commits the backup  *)
(* code first and the device later.  Consent and audit logs are left out,  *)
(* nothing here reads them.                                                *)
(***************************************************************************)
EXTENDS Integers, Sequences, Workers

CONSTANTS
  BackupCodes,                        \* TOTP_BACKUP_CODE_COUNT of them in a batch
  TOTP_MAX_TRUSTED_DEVICES_PER_USER,
  MaxSecrets, MaxBatches, MaxDevices  \* bounds: rows and batches ever made

ASSUME TwoFactorAssumption ==
  /\ TOTP_MAX_TRUSTED_DEVICES_PER_USER \in Nat \ {0}
  /\ {MaxSecrets, MaxBatches, MaxDevices} \subseteq Nat

VARIABLES
  totpEnabled,  \* User.totp_enabled
  secret,       \* the user's only UserTOTPSecret row; id 0 is none
  batch,        \* backup codes ever generated; "unused" are those of the last batch
  unused,
  batchKept,    \* whether the rows of the last batch are there
  opened,       \* history: logins that each code of each batch opened
  devices,      \* the TrustedDevice rows, by id
  lastSecret,
  factorReq     \* the handler that each worker runs

factorVars == <<workers, totpEnabled, secret, batch, unused, batchKept, opened, devices,
                lastSecret, factorReq>>

-----------------------------------------------------------------------------
NoSecret == [id |-> 0, is_verified |-> FALSE]
DeviceRow == [is_active : BOOLEAN, expired : BOOLEAN, kept : BOOLEAN]
Active(d) == devices[d].is_active /\ devices[d].kept
ActiveDevices == {d \in DOMAIN devices : Active(d)}

\* "row": the secret, or the batch, that the handler found.
FactorRequest == [pc : {"idle", "setup", "verify", "disable", "regenerate", "consume",
                        "trust", "insert"},
                  row : Nat, code : BackupCodes \cup {"none"}]
FactorIdle == [pc |-> "idle", row |-> 0, code |-> "none"]
FactorAt(q, step) == q \in workers /\ factorReq[q].pc = step
FactorGoto(q, r) == factorReq' = [factorReq EXCEPT ![q] = r]
FactorEnds(q) == FactorGoto(q, FactorIdle)

TwoFactorInit ==
  /\ WorkersInit
  /\ totpEnabled = FALSE
  /\ secret = NoSecret
  /\ batch = 0 /\ unused = {} /\ batchKept = FALSE
  /\ opened = <<>>
  /\ devices = <<>>
  /\ lastSecret = 0
  /\ factorReq = [q \in Worker |-> FactorIdle]

-----------------------------------------------------------------------------
(* Setup *)

\* setup_2fa replaces a secret that isn't verified; one that was verified in
\* between is unique for the user, and the insert fails.
Setup2fa(q) ==
  /\ FactorAt(q, "idle") /\ ~totpEnabled
  /\ FactorGoto(q, [FactorIdle EXCEPT !.pc = "setup"])
  /\ UNCHANGED <<totpEnabled, secret, batch, unused, batchKept, opened, devices, lastSecret>>
SecretCreated(q) ==
  /\ FactorAt(q, "setup") /\ FactorEnds(q) /\ lastSecret < MaxSecrets
  /\ lastSecret' = lastSecret + 1
  /\ secret' = IF secret.is_verified THEN secret
                                     ELSE [id |-> lastSecret + 1, is_verified |-> FALSE]
  /\ UNCHANGED <<totpEnabled, batch, unused, batchKept, opened, devices>>

\* generate_backup_codes: the rows of the last batch are deleted.
NewBatch ==
  /\ batch < MaxBatches /\ batch' = batch + 1 /\ unused' = BackupCodes /\ batchKept' = TRUE
  /\ opened' = Append(opened, [c \in BackupCodes |-> 0])

\* verify_setup, with a code that fits the pending secret.
VerifySetup(q) ==
  /\ FactorAt(q, "idle") /\ secret.id # 0 /\ ~secret.is_verified
  /\ FactorGoto(q, [FactorIdle EXCEPT !.pc = "verify", !.row = secret.id])
  /\ UNCHANGED <<totpEnabled, secret, batch, unused, batchKept, opened, devices, lastSecret>>

\* Its commit: mark_verified may find no row, and the user is enabled anyway.
SetupVerified(q) ==
  /\ FactorAt(q, "verify") /\ FactorEnds(q) /\ NewBatch
  /\ totpEnabled' = TRUE
  /\ secret' = [secret EXCEPT !.is_verified = @ \/ secret.id = factorReq[q].row]
  /\ UNCHANGED <<devices, lastSecret>>

\* disable_2fa, with the password or a code by e-mail: trusted devices stay.
Disable2fa(q) ==
  /\ FactorAt(q, "idle") /\ totpEnabled
  /\ FactorGoto(q, [FactorIdle EXCEPT !.pc = "disable"])
  /\ UNCHANGED <<totpEnabled, secret, batch, unused, batchKept, opened, devices, lastSecret>>
Disabled(q) ==
  /\ FactorAt(q, "disable") /\ FactorEnds(q)
  /\ totpEnabled' = FALSE /\ secret' = NoSecret /\ unused' = {} /\ batchKept' = FALSE
  /\ UNCHANGED <<batch, opened, devices, lastSecret>>

\* regenerate_backup_codes
Regenerate(q) ==
  /\ FactorAt(q, "idle") /\ totpEnabled
  /\ FactorGoto(q, [FactorIdle EXCEPT !.pc = "regenerate"])
  /\ UNCHANGED <<totpEnabled, secret, batch, unused, batchKept, opened, devices, lastSecret>>
Regenerated(q) ==
  /\ FactorAt(q, "regenerate") /\ FactorEnds(q) /\ NewBatch
  /\ UNCHANGED <<totpEnabled, secret, devices, lastSecret>>

-----------------------------------------------------------------------------
(* Login *)

\* verify_2fa_login with a backup code: verify_and_consume_code finds it unused.
LoginWithBackup(q, code) ==
  /\ FactorAt(q, "idle") /\ totpEnabled /\ code \in unused
  /\ FactorGoto(q, [FactorIdle EXCEPT !.pc = "consume", !.row = batch, !.code = code])
  /\ UNCHANGED <<totpEnabled, secret, batch, unused, batchKept, opened, devices, lastSecret>>

\* The row is written by key: a row that was deleted fails the login, one that
\* was used in between doesn't.
\* Mutant of Unspent: the code stays unused.
UnspentAll(code) == unused
Unspent(code) == unused \ {code}
BackupConsumed(q) ==
  /\ FactorAt(q, "consume")
  /\ LET r == factorReq[q]
     IN IF batchKept /\ batch = r.row
        THEN /\ unused' = Unspent(r.code)
             /\ opened' = [opened EXCEPT ![r.row][r.code] = @ + 1]
             /\ \/ FactorEnds(q)
                \/ FactorGoto(q, [FactorIdle EXCEPT !.pc = "trust"])
        ELSE UNCHANGED <<unused, opened>> /\ FactorEnds(q)
  /\ UNCHANGED <<totpEnabled, secret, batch, batchKept, devices, lastSecret>>

\* verify_2fa_login with a code that fits the secret, and trust_device.
LoginWithTotp(q) ==
  /\ FactorAt(q, "idle") /\ totpEnabled /\ secret.is_verified
  /\ FactorGoto(q, [FactorIdle EXCEPT !.pc = "trust"])
  /\ UNCHANGED <<totpEnabled, secret, batch, unused, batchKept, opened, devices, lastSecret>>

\* trust_device counts the active devices, expired ones too, and then inserts:
\* over the limit the login goes on without.
\* Mutant of MayTrust: one device too many.
MayTrustAt == Cardinality(ActiveDevices) <= TOTP_MAX_TRUSTED_DEVICES_PER_USER
MayTrust == Cardinality(ActiveDevices) < TOTP_MAX_TRUSTED_DEVICES_PER_USER
CountDevices(q) ==
  /\ FactorAt(q, "trust")
  /\ FactorGoto(q, IF MayTrust THEN [FactorIdle EXCEPT !.pc = "insert"] ELSE FactorIdle)
  /\ UNCHANGED <<totpEnabled, secret, batch, unused, batchKept, opened, devices, lastSecret>>
DeviceTrusted(q) ==
  /\ FactorAt(q, "insert") /\ FactorEnds(q) /\ Len(devices) < MaxDevices
  /\ devices' = Append(devices, [is_active |-> TRUE, expired |-> FALSE, kept |-> TRUE])
  /\ UNCHANGED <<totpEnabled, secret, batch, unused, batchKept, opened, lastSecret>>

-----------------------------------------------------------------------------
(* Devices *)

\* Each is one commit, of rows found by what they hold at that time:
\* revoke_device, revoke_all_devices, cleanup_expired_devices, and
\* delete_old_revoked_devices.
SetDevices(q, D, rows) ==
  /\ FactorAt(q, "idle") /\ D # {}
  /\ devices' = rows
  /\ UNCHANGED <<totpEnabled, secret, batch, unused, batchKept, opened, lastSecret, factorReq>>
Revoked(D) == [d \in DOMAIN devices |-> [devices[d] EXCEPT !.is_active = @ /\ d \notin D]]
Deleted(D) == [d \in DOMAIN devices |-> [devices[d] EXCEPT !.kept = @ /\ d \notin D]]
RevokeDevice(q, d) == devices[d].kept /\ SetDevices(q, {d}, Revoked({d}))
RevokeAllDevices(q) == SetDevices(q, ActiveDevices, Revoked(ActiveDevices))
Expired == {d \in ActiveDevices : devices[d].expired}
CleanupDevices(q) == SetDevices(q, Expired, Revoked(Expired))
DeleteOldDevices(q, D) ==
  /\ \A d \in D : devices[d].kept /\ ~devices[d].is_active
  /\ SetDevices(q, D, Deleted(D))

DeviceExpires(d) ==
  /\ Active(d) /\ ~devices[d].expired /\ devices' = [devices EXCEPT ![d].expired = TRUE]
  /\ UNCHANGED <<totpEnabled, secret, batch, unused, batchKept, opened, lastSecret, factorReq>>

\* The process dies, or the handler fails: what is not committed is lost.
FactorDies(q) ==
  /\ q \in workers /\ factorReq[q].pc # "idle" /\ FactorEnds(q)
  /\ UNCHANGED <<totpEnabled, secret, batch, unused, batchKept, opened, devices, lastSecret>>

FactorStep(q) ==
  \/ Setup2fa(q) \/ SecretCreated(q) \/ VerifySetup(q) \/ SetupVerified(q)
  \/ Disable2fa(q) \/ Disabled(q) \/ Regenerate(q) \/ Regenerated(q)
  \/ \E code \in BackupCodes : LoginWithBackup(q, code)
  \/ BackupConsumed(q) \/ LoginWithTotp(q) \/ CountDevices(q) \/ DeviceTrusted(q)
  \/ \E d \in DOMAIN devices : RevokeDevice(q, d)
  \/ \E D \in SUBSET DOMAIN devices : DeleteOldDevices(q, D)
  \/ RevokeAllDevices(q) \/ CleanupDevices(q) \/ FactorDies(q)
TwoFactorNext ==
  /\ UNCHANGED workers
  /\ \/ \E q \in workers : FactorStep(q)
     \/ \E d \in DOMAIN devices : DeviceExpires(d)
TwoFactorSpec == TwoFactorInit /\ [][TwoFactorNext]_factorVars

TwoFactorTypeOK ==
  /\ totpEnabled \in BOOLEAN
  /\ secret \in [id : Nat, is_verified : BOOLEAN] /\ lastSecret \in 0..MaxSecrets
  /\ batch \in 0..MaxBatches /\ unused \subseteq BackupCodes /\ batchKept \in BOOLEAN
  /\ DOMAIN opened = 1..batch
  /\ DOMAIN devices \in {1..n : n \in 0..MaxDevices}
  /\ \A d \in DOMAIN devices : devices[d] \in DeviceRow
  /\ factorReq \in [Worker -> FactorRequest]

\* A backup code opens one login, or one for each handler that found it unused
\* before any of them marked it.
BackupCodesBounded ==
  \A b \in DOMAIN opened, c \in BackupCodes : opened[b][c] <= Cardinality(workers)

\* A user has as many active devices as allowed, and one more for each further
\* login that counted them before any of them stored its own.
DevicesBounded ==
  Cardinality(ActiveDevices) < TOTP_MAX_TRUSTED_DEVICES_PER_USER + Cardinality(workers)
=============================================================================
