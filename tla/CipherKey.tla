----------------------------- MODULE CipherKey -----------------------------
(***************************************************************************)
(* The key that encrypts the private name tags (EncryptionService).  It is *)
(* stored under the key of a KMS, and each instance of the API reads it    *)
(* when it starts, or makes and stores one if there is none.               *)
(***************************************************************************)
EXTENDS Integers, Sequences

CONSTANTS
  Instances,
  MaxStarts,   \* bound: starts of all instances together
  NoKey

VARIABLES
  keys,        \* the rows of cipher_keys, by id: how the text was written
  pc,          \* pc[i]
  key,         \* key[i]: the id of the row whose key the instance uses
  starts,
  secrets      \* history: the keys with which something was encrypted

vars == <<keys, pc, key, starts, secrets>>

\* "bytes": what an instance stores, as Uint8Array.toString writes it.
\* "hex": what an operator stores, as getKey reads it.
Init ==
  /\ keys = <<>>
  /\ pc = [i \in Instances |-> "down"] /\ key = [i \in Instances |-> NoKey]
  /\ starts = 0 /\ secrets = {}

Goto(i, step) == pc' = [pc EXCEPT ![i] = step]

\* onModuleInit and getKey: findOne asks for a row without an order.
Start(i) ==
  /\ pc[i] = "down" /\ starts < MaxStarts
  /\ starts' = starts + 1
  /\ Goto(i, IF keys = <<>> THEN "check" ELSE "read")
  /\ UNCHANGED <<keys, key, secrets>>

\* addCipherKey looks once more, then waits for a new key of the KMS.
Check(i) ==
  /\ pc[i] = "check"
  /\ Goto(i, IF keys = <<>> THEN "insert" ELSE "read")
  /\ UNCHANGED <<keys, key, starts, secrets>>

Insert(i) ==
  /\ pc[i] = "insert"
  /\ keys' = Append(keys, "bytes")
  /\ Goto(i, "read")
  /\ UNCHANGED <<key, starts, secrets>>

\* Buffer.from(text, 'hex') stops at the first comma of "bytes", and the KMS
\* does not decrypt what is left.
ReadableAll(text) == text \in {"hex", "bytes"}
Readable(text)    == text = "hex"

ReadKey(i) ==
  /\ pc[i] = "read"
  /\ \E id \in DOMAIN keys :
       IF Readable(keys[id])
       THEN Goto(i, "up") /\ key' = [key EXCEPT ![i] = id]
       ELSE Goto(i, "down") /\ UNCHANGED key
  /\ UNCHANGED <<keys, starts, secrets>>

\* encrypt, with an initialisation vector of zeros: the same name has the
\* same cipher, which the searches and the uniqueness checks rest on.
Encrypt(i) ==
  /\ pc[i] = "up"
  /\ secrets' = secrets \cup {key[i]}
  /\ UNCHANGED <<keys, pc, key, starts>>

\* A crash, a failed statement or an error of the KMS.
Stop(i) ==
  /\ pc[i] # "down"
  /\ Goto(i, "down") /\ key' = [key EXCEPT ![i] = NoKey]
  /\ UNCHANGED <<keys, starts, secrets>>

\* An operator stores the key, once.
Install ==
  /\ \A id \in DOMAIN keys : keys[id] # "hex"
  /\ keys' = Append(keys, "hex")
  /\ UNCHANGED <<pc, key, starts, secrets>>

Quiet == starts = MaxStarts /\ UNCHANGED vars

Next ==
  \/ Install \/ Quiet
  \/ \E i \in Instances :
       Start(i) \/ Check(i) \/ Insert(i) \/ ReadKey(i) \/ Encrypt(i) \/ Stop(i)

Spec == Init /\ [][Next]_vars

-----------------------------------------------------------------------------
(* Properties                                                              *)

\* Whatever instances start side by side on an empty table, and whichever
\* row findOne returns, an instance that is up can decrypt what any other
\* ever encrypted.  Two starts do leave two rows; what keeps them apart is
\* that no instance can read a key that an instance made.
SecretsAreReadable ==
  \A i \in Instances : pc[i] = "up" => secrets \subseteq {key[i]}

=============================================================================
