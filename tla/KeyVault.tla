------------------------------ MODULE KeyVault ------------------------------
(***************************************************************************)
(* The key that the secret columns are encrypted under: internal/keyvault  *)
(* as main and mcp call it when they start, and the commands rotate-key    *)
(* and recover-key.  The platform secret comes from the environment or     *)
(* from a file beside the database; it wraps the data key (DEK) that       *)
(* crypto_keystore holds, and a recovery secret may wrap it a second time. *)
(*                                                                         *)
(* Two processes may start at once, on the first boot too, and may stop at *)
(* any step.  Secrets and keys are numbers; a random one is the next       *)
(* number.  A wrapped key is a pair that only the same secret opens.  A    *)
(* recovery secret that is set later has no effect on a keystore that is   *)
(* there, and is left out.                                                 *)
(***************************************************************************)
EXTENDS Naturals

CONSTANTS
    Process,     \* calnode processes on one database
    Chosen,      \* the secrets an operator may put into the environment
    LegacyKey,   \* the raw key of a deployment from before the keystore, one of Chosen
    RecoveryKey, \* CALNODE_RECOVERY_SECRET
    FirstRandom, \* random values are numbers from here on
    MaxStarts,   \* bound on the starts of a process
    MaxEdits     \* bound on what the operator does

None == 0

Empty == 1  \* a key file that was created and not written; no secret has this number

VARIABLES
    env,       \* CALNODE_ENCRYPTION_KEY
    escrow,    \* is CALNODE_RECOVERY_SECRET set?
    file,      \* calnode.key: None, Empty or its secret
    primary,   \* the two rows of crypto_keystore
    recovery,
    data,      \* the keys under which there is ciphertext in the database
    proc,      \* the processes
    fresh,     \* the next random value
    starts, edits,
    escrowed,  \* did a first boot with a recovery secret end well?
    mishaps    \* what went wrong that the code does not guard against

vaultVars == <<env, escrow, file, primary, recovery, data, proc, fresh, starts, edits, escrowed,
               mishaps>>

rows == <<primary, recovery>>

settings == <<env, escrow, edits>>

NoRow == [secret |-> None, dek |-> None]

Down == [pc |-> "down", secret |-> None, dek |-> None, escrow |-> FALSE, wrap |-> FALSE,
         first |-> FALSE]

VaultInit ==
    /\ env \in Chosen \cup {None} /\ escrow \in BOOLEAN
    /\ data \in {{}, {LegacyKey}}
    /\ file = None /\ primary = NoRow /\ recovery = NoRow
    /\ proc = [p \in Process |-> Down]
    /\ fresh = FirstRandom /\ starts = 0 /\ edits = 0
    /\ escrowed = FALSE /\ mishaps = {}

\* A key wrapped under a secret, with a salt of its own.
insertKeystoreRow(secret, dek) == [secret |-> secret, dek |-> dek]

\* AES-GCM refuses a key derived from another secret.
unwrapDEK(row, secret) == row # NoRow /\ row.secret = secret

Become(p, pc) == proc' = [proc EXCEPT ![p].pc = pc]

Exit(p) == proc' = [proc EXCEPT ![p] = Down]

-----------------------------------------------------------------------------
(* ResolvePlatformSecret.                                                  *)

\* The environment wins, then the file; an empty file is refused.
ResolvePlatformSecret(p) ==
    LET starting(pc, secret) ==
            proc' = [proc EXCEPT ![p] = [Down EXCEPT !.pc = pc, !.secret = secret,
                                                     !.escrow = escrow]]
    IN
    /\ proc[p] = Down /\ starts < MaxStarts
    /\ starts' = starts + 1
    /\ \/ env # None /\ starting("open", env) /\ UNCHANGED fresh
       \/ env = None /\ file \notin {None, Empty} /\ starting("open", file) /\ UNCHANGED fresh
       \/ env = None /\ file = Empty /\ UNCHANGED <<proc, fresh>>
       \/ env = None /\ file = None /\ starting("create", fresh) /\ fresh' = fresh + 1
    /\ UNCHANGED <<settings, file, rows, data, escrowed, mishaps>>

\* A slip: the file is truncated if it is there.
CreateOrTruncate(p) ==
    /\ proc[p].pc = "create"
    /\ file' = Empty /\ Become(p, "write")
    /\ UNCHANGED <<settings, rows, data, fresh, starts, escrowed, mishaps>>

\* O_EXCL: whoever comes second reads the file of the first, and gives up if it is empty.
CreateFile(p) ==
    /\ proc[p].pc = "create"
    /\ \/ file = None /\ file' = Empty /\ Become(p, "write")
       \/ file = Empty /\ Exit(p) /\ UNCHANGED file
       \/ file \notin {None, Empty} /\ UNCHANGED file
          /\ proc' = [proc EXCEPT ![p].secret = file, ![p].pc = "open"]
    /\ UNCHANGED <<settings, rows, data, fresh, starts, escrowed, mishaps>>

\* Has another process taken over the secret of this one?
Shared(p) == \/ \E q \in Process \ {p} : proc[q].secret = proc[p].secret
             \/ primary.secret = proc[p].secret

\* A file that cannot be written or closed is removed.
WriteFile(p) ==
    /\ proc[p].pc \in {"write", "close"}
    /\ \/ /\ proc[p].pc = "write"
          /\ file' = proc[p].secret /\ Become(p, "close") /\ UNCHANGED mishaps
       \/ /\ proc[p].pc = "close"
          /\ Become(p, "open") /\ UNCHANGED <<file, mishaps>>
       \/ /\ file' = None /\ Exit(p)
          /\ mishaps' = IF Shared(p) THEN mishaps \cup {"withdrawn"} ELSE mishaps
    /\ UNCHANGED <<settings, rows, data, fresh, starts, escrowed>>

-----------------------------------------------------------------------------
(* Open.                                                                   *)

\* A slip: a row that cannot be opened is taken for none.
openOrReplace(p) ==
    IF unwrapDEK(primary, proc[p].secret)
    THEN proc' = [proc EXCEPT ![p].dek = primary.dek, ![p].pc = "up"]
    ELSE Become(p, "detect")

\* The secret opens the row, or the process does not start.
openExisting(p) ==
    \/ unwrapDEK(primary, proc[p].secret)
       /\ proc' = [proc EXCEPT ![p].dek = primary.dek, ![p].pc = "up"]
    \/ ~unwrapDEK(primary, proc[p].secret) /\ Exit(p)

Open(p) ==
    /\ proc[p].pc = "open"
    /\ \/ primary # NoRow /\ openExisting(p)
       \/ primary = NoRow /\ proc' = [proc EXCEPT ![p].first = TRUE, ![p].pc = "detect"]
    /\ UNCHANGED <<settings, file, rows, data, fresh, starts, escrowed, mishaps>>

\* A key of its own, random.
freshInstall(p) ==
    /\ proc' = [proc EXCEPT ![p].dek = fresh, ![p].wrap = proc[p].escrow, ![p].pc = "primary"]
    /\ fresh' = fresh + 1

\* A slip: the recovery secret is not handed on.
migrateWithoutRecovery(p) ==
    /\ proc' = [proc EXCEPT ![p].dek = proc[p].secret, ![p].pc = "primary"]
    /\ UNCHANGED fresh

\* The secret itself becomes the data key, whether or not the data is encrypted under it.
migrateLegacy(p) ==
    /\ proc' = [proc EXCEPT ![p].dek = proc[p].secret, ![p].wrap = proc[p].escrow,
                            ![p].pc = "primary"]
    /\ UNCHANGED fresh

\* hasEncryptedData looks at four columns and takes an error for no data; a secret that is not
\* a raw key cannot be adopted, and the process does not start.
Detect(p) ==
    /\ proc[p].pc = "detect"
    /\ \/ data = {} /\ freshInstall(p) /\ UNCHANGED mishaps
       \/ /\ data # {} /\ freshInstall(p) /\ mishaps' = mishaps \cup {"blind"}
       \/ /\ data # {} /\ migrateLegacy(p)
          /\ mishaps' = IF data = {proc[p].secret} THEN mishaps ELSE mishaps \cup {"adopted"}
       \/ data # {} /\ Exit(p) /\ UNCHANGED <<fresh, mishaps>>
    /\ UNCHANGED <<settings, file, rows, data, starts, escrowed>>

\* ON CONFLICT DO UPDATE: a row that another process has stored meanwhile is replaced.
storePrimary(p) ==
    /\ proc[p].pc = "primary"
    /\ primary' = insertKeystoreRow(proc[p].secret, proc[p].dek)
    /\ mishaps' = IF primary # NoRow /\ proc[p].first THEN mishaps \cup {"raced"} ELSE mishaps
    /\ Become(p, IF proc[p].wrap THEN "recovery" ELSE "up")
    /\ escrowed' = (escrowed \/ (proc[p].escrow /\ ~proc[p].wrap))
    /\ UNCHANGED <<settings, file, recovery, data, fresh, starts>>

storeRecovery(p) ==
    /\ proc[p].pc = "recovery"
    /\ recovery' = insertKeystoreRow(RecoveryKey, proc[p].dek)
    /\ escrowed' = TRUE
    /\ Become(p, "up")
    /\ UNCHANGED <<settings, file, primary, data, fresh, starts, mishaps>>

\* A running process encrypts what it stores.
Encrypt(p) ==
    /\ proc[p].pc = "up"
    /\ data' = data \cup {proc[p].dek}
    /\ UNCHANGED <<settings, file, rows, proc, fresh, starts, escrowed, mishaps>>

\* A statement fails, a process is stopped or the machine goes down.
Stop(p) ==
    /\ proc[p] # Down
    /\ Exit(p)
    /\ UNCHANGED <<settings, file, rows, data, fresh, starts, escrowed, mishaps>>

-----------------------------------------------------------------------------
(* The operator.                                                           *)

Edit == edits < MaxEdits /\ edits' = edits + 1

\* Another environment for the next start, the wrong secret or none among them.
Configure(secret) ==
    /\ Edit
    /\ env # secret /\ env' = secret
    /\ UNCHANGED <<escrow, file, rows, data, proc, fresh, starts, escrowed, mishaps>>

\* What the error about an empty file asks for.
DeleteEmptyFile ==
    /\ file = Empty /\ \A p \in Process : proc[p].pc # "write"
    /\ file' = None
    /\ UNCHANGED <<settings, rows, data, proc, fresh, starts, escrowed, mishaps>>

\* The data key stays, and the recovery row with it.
RotatePrimary(old, new) ==
    /\ unwrapDEK(primary, old)
    /\ primary' = insertKeystoreRow(new, primary.dek)

runRotateKey(new) ==
    /\ Edit
    /\ env # None /\ env # new
    /\ RotatePrimary(env, new)
    /\ UNCHANGED <<env, escrow, file, recovery, data, proc, fresh, starts, escrowed, mishaps>>

\* The data key of the recovery row, under a new platform secret.
RecoverPrimary(new) ==
    /\ unwrapDEK(recovery, RecoveryKey)
    /\ primary' = insertKeystoreRow(new, recovery.dek)

runRecoverKey(new) ==
    /\ Edit
    /\ escrow
    /\ RecoverPrimary(new)
    /\ UNCHANGED <<env, escrow, file, recovery, data, proc, fresh, starts, escrowed, mishaps>>

VaultNext ==
    \/ \E p \in Process : \/ ResolvePlatformSecret(p) \/ CreateFile(p) \/ WriteFile(p)
                          \/ Open(p) \/ Detect(p) \/ storePrimary(p) \/ storeRecovery(p)
                          \/ Encrypt(p) \/ Stop(p)
    \/ \E s \in Chosen : runRotateKey(s) \/ runRecoverKey(s)
    \/ \E s \in Chosen \cup {None} : Configure(s)
    \/ DeleteEmptyFile

VaultSpec == VaultInit /\ [][VaultNext]_vaultVars

-----------------------------------------------------------------------------

\* Whatever secret a process is started with, wherever it stops, and however the key is rotated
\* or recovered, the keystore holds the key that the stored data is encrypted under.  The
\* exceptions are two first boots at once, of which the second replaces the key of the first,
\* a legacy deployment started with another secret than its raw key, and legacy data that
\* hasEncryptedData does not see.
DataReadable ==
    primary # NoRow /\ mishaps \cap {"raced", "adopted", "blind"} = {} =>
        data \subseteq {primary.dek}

\* The secret that opens the keystore is one the operator chose or the one in the key file,
\* also when processes race for the file and their writes fail; the exception is a file
\* removed by the process that made it after another has read it.
SecretKept ==
    primary # NoRow /\ "withdrawn" \notin mishaps => primary.secret \in Chosen \cup {file}

\* Once a first boot with a recovery secret has succeeded, the recovery row opens the data key,
\* across rotations and recoveries; the exception are two first boots at once.
RecoveryOpens ==
    escrowed /\ "raced" \notin mishaps => recovery = [secret |-> RecoveryKey, dek |-> primary.dek]
=============================================================================
