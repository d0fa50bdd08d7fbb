------------------------------ MODULE Secrets ------------------------------
(* Encryption of the configs of monitors and channels (internal/crypto, the  *)
(* repositories' encryptConfig and decryptConfig) while processes with       *)
(* different environments run side by side.  A process builds its cipher     *)
(* once, when it starts, from ENCRYPTION_KEYS and ENCRYPTION_PRIMARY_VERSION,*)
(* and writes with the primary key; a ciphertext names the version of its    *)
(* key.  The operator changes the environment and restarts processes one by  *)
(* one.                                                                      *)
EXTENDS Integers, FiniteSets

CONSTANTS Processes,  \* api, scheduler, worker and notifier processes
          Writers,    \* those that serve the API
          Dispatchers,\* those that load all monitors when they start
          Configs,    \* rows of monitors and notification_channels
          MonitorRows,\* the monitors among them
          Versions    \* key versions

ASSUME SecretsAssumption ==
    /\ Writers \subseteq Processes /\ Dispatchers \subseteq Processes
    /\ MonitorRows \subseteq Configs
    /\ Versions \subseteq 1..255

VARIABLES env,     \* what the environment says
          running, \* processes that run
          cipher,  \* the cipher each of them built
          column,  \* the config column of each row
          held     \* per process: requests that have read a row and not yet written

secretVars == <<env, running, cipher, column, held>>

(* A set of keys and the version to encrypt with.                            *)
Ring == [keys: SUBSET Versions, primary: Versions \cup {0}]

(* No ENCRYPTION_KEYS.                                                       *)
NoOpCipher == [keys |-> {}, primary |-> 0]

(* "object" is plain JSON, "text" the same JSON as one JSON string, "sealed" *)
(* a JSON string with a ciphertext under the key; 0 is no version.           *)
Value == [form: {"unused", "object", "text", "sealed", "deleted"}, key: Versions \cup {0}]
As(form) == [form |-> form, key |-> 0]
Sealed(v) == [form |-> "sealed", key |-> v]

Held == [row: Configs, config: Value]

(* Keys have versions, and every cipher is a set of keys with a primary.     *)
SecretsTypeOK ==
    /\ env \in Ring
    /\ running \subseteq Processes
    /\ cipher \in [Processes -> Ring]
    /\ column \in [Configs -> Value]
    /\ held \in [Writers -> SUBSET Held]

(* Some rows are older than encryption.                                      *)
SecretsInit ==
    /\ env = NoOpCipher
    /\ running = {}
    /\ cipher = [p \in Processes |-> NoOpCipher]
    /\ column \in [Configs -> {As("unused"), As("object")}]
    /\ held = [p \in Writers |-> {}]

-----------------------------------------------------------------------------
(* The ciphers.                                                              *)

NewEncryptor(ring) == ring.primary \in ring.keys

InitCipher(ring) == ring = NoOpCipher \/ NewEncryptor(ring)

(* Mutant: encrypt with the newest key instead of the primary.               *)
EncryptNewest(ring) == Sealed(CHOOSE v \in ring.keys : \A w \in ring.keys : w <= v)

Encrypt(ring) == Sealed(ring.primary)

(* Without keys what was read is a string that is written back as it is.     *)
NoOpEncrypt(config) == IF config.form = "sealed" THEN config ELSE As("text")

EncryptConfig(ring, config) ==
    IF ring.keys = {} THEN NoOpEncrypt(config) ELSE Encrypt(ring)

Decrypts(ring, value) == value.form = "sealed" /\ value.key \in ring.keys

(* Plain JSON is returned as it is; every JSON string goes to the cipher,    *)
(* and NoOpCipher takes whatever it is given.                                *)
DecryptConfigOk(ring, value) ==
    value.form = "object" \/ ring.keys = {} \/ Decrypts(ring, value)

DecryptConfig(ring, value) ==
    IF ring.keys = {} /\ value.form = "sealed" THEN value ELSE As("object")

Row(r) == column[r].form \notin {"unused", "deleted"}

-----------------------------------------------------------------------------
(* Processes.                                                                *)

(* One unreadable monitor keeps a scheduler from starting (ListActive).      *)
ListActiveOk(ring) == \A r \in MonitorRows : Row(r) => DecryptConfigOk(ring, column[r])

StartProcess(p) ==
    /\ p \notin running
    /\ InitCipher(env)
    /\ p \in Dispatchers => ListActiveOk(env)
    /\ running' = running \cup {p}
    /\ cipher' = [cipher EXCEPT ![p] = env]
    /\ UNCHANGED <<env, column, held>>

StopProcess(p) ==
    /\ p \in running
    /\ running' = running \ {p}
    /\ held' = [w \in Writers |-> IF w = p THEN {} ELSE held[w]]
    /\ UNCHANGED <<env, cipher, column>>

-----------------------------------------------------------------------------
(* Requests.                                                                 *)

CreateConfig(p, r) ==
    /\ p \in running
    /\ column[r] = As("unused")
    /\ column' = [column EXCEPT ![r] = EncryptConfig(cipher[p], As("object"))]
    /\ UNCHANGED <<env, running, cipher, held>>

(* Updates and deletes begin with GetByID, which decrypts; a row that does   *)
(* not decrypt can be neither changed nor deleted.                           *)
LoadConfig(p, r) ==
    /\ p \in running
    /\ Row(r)
    /\ DecryptConfigOk(cipher[p], column[r])
    /\ held' = [held EXCEPT ![p] = @ \cup {[row |-> r, config |-> DecryptConfig(cipher[p], column[r])]}]
    /\ UNCHANGED <<env, running, cipher, column>>

(* Update writes the config it read, or the one of the request, and nothing  *)
(* when the row is gone.                                                     *)
SaveConfig(p, q) ==
    /\ q \in held[p]
    /\ \E config \in {q.config, As("object")} :
          column' = [column EXCEPT ![q.row] =
                        IF Row(q.row) THEN EncryptConfig(cipher[p], config) ELSE @]
    /\ held' = [held EXCEPT ![p] = @ \ {q}]
    /\ UNCHANGED <<env, running, cipher>>

DeleteConfig(p, q) ==
    /\ q \in held[p]
    /\ column' = [column EXCEPT ![q.row] = As("deleted")]
    /\ held' = [held EXCEPT ![p] = @ \ {q}]
    /\ UNCHANGED <<env, running, cipher>>

-----------------------------------------------------------------------------
(* The operator, who changes the environment step by step.                   *)

Configure(ring) == env' = ring /\ UNCHANGED <<running, cipher, column, held>>

(* Every process that runs was started with the present environment.         *)
RolledOut == \A p \in running : cipher[p] = env

Enable(v) == env = NoOpCipher /\ Configure([keys |-> {v}, primary |-> v])

AddKey(v) == env # NoOpCipher /\ Configure([env EXCEPT !.keys = @ \cup {v}])

(* Only when every process knows the key it will have to read with.          *)
SetPrimary(v) == RolledOut /\ v \in env.keys /\ Configure([env EXCEPT !.primary = v])

(* Only when no row needs the key and no process writes with it.             *)
RetireKey(v) ==
    /\ RolledOut
    /\ v # env.primary
    /\ \A r \in Configs : column[r] # Sealed(v)
    /\ Configure([env EXCEPT !.keys = @ \ {v}])

SecretsNext ==
    \/ \E p \in Processes : StartProcess(p) \/ StopProcess(p)
    \/ \E p \in Writers :
          \/ \E r \in Configs : CreateConfig(p, r) \/ LoadConfig(p, r)
          \/ \E q \in held[p] : SaveConfig(p, q) \/ DeleteConfig(p, q)
    \/ \E v \in Versions : Enable(v) \/ AddKey(v) \/ SetPrimary(v) \/ RetireKey(v)

SecretsSpec == SecretsInit /\ [][SecretsNext]_secretVars

-----------------------------------------------------------------------------
(* Properties.                                                               *)

(* Keys may be added, made primary and retired while processes with the old  *)
(* and the new environment run side by side, write, and hold configs they    *)
(* read before: every process that has keys decrypts every ciphertext        *)
(* (crypto.go:27-28, "Supports N keys simultaneously for seamless            *)
(* rotation").                                                               *)
SeamlessRotation ==
    \A p \in running, r \in Configs :
        cipher[p].keys # {} /\ column[r].form = "sealed" => Decrypts(cipher[p], column[r])
=============================================================================
