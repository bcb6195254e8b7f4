-------------------------------- MODULE Message --------------------------------
(***************************************************************************)
(* The messages between the application and the enclave (Message.c), and the *)
(* counter that gives every message its own initialisation vector            *)
(* (CommonUtil.c).  AES-GCM is external: what it encrypts comes back under     *)
(* the same key, vector and tag, and a decryption under others returns 0.     *)
(***************************************************************************)
EXTENDS Integers

CONSTANTS
  BYTE,          \* the values of a byte: 256
  GCM_IV_SIZE    \* bytes of a vector: 12

ASSUME CounterAssumption == BYTE \in Nat \ {0, 1} /\ GCM_IV_SIZE \in Nat \ {0}

Bytes == 1 .. GCM_IV_SIZE
IV    == [Bytes -> 0 .. BYTE - 1]

\* Mutant: the carry is dropped.
IncrNoCarry(ctr) == [ctr EXCEPT ![1] = (@ + 1) % BYTE]

\* incr_ctr: the first byte is the lowest; it stops at the first that is not 0 then.
incr_ctr(ctr) ==
  [k \in Bytes |-> IF \A m \in 1 .. k - 1 : ctr[m] = BYTE - 1 THEN (ctr[k] + 1) % BYTE ELSE ctr[k]]

\* Weight[n] is BYTE to the power n.
Weight[n \in Nat] == IF n = 0 THEN 1 ELSE BYTE * Weight[n - 1]

\* The numbers that the first bytes of a vector stand for, and the one it does.
CtrParts(ctr) ==
  LET part[n \in 0 .. GCM_IV_SIZE] == IF n = 0 THEN 0 ELSE part[n - 1] + ctr[n] * Weight[n - 1]
  IN part
CtrValue(ctr) == CtrParts(ctr)[GCM_IV_SIZE]

Nothing == [plain |-> "none", key |-> "none", iv |-> [k \in Bytes |-> 0]]

\* gcm_encrypt, whose tag goes with the message.
gcm_encrypt(data, key, iv) == [plain |-> data, key |-> key, iv |-> iv]

Failed == "failed"

\* gcm_decrypt returns a length, 0 when the tag does not fit.
gcm_decrypt(cipher, key, iv) == IF cipher.key = key /\ cipher.iv = iv THEN cipher.plain ELSE Failed

\* pack_message puts the vector of the context before the encrypted payload.
Packed(data, ctx) == [iv |-> ctx.IV, cipher |-> gcm_encrypt(data, ctx.key, ctx.IV)]

\* unpack_message takes the vector from the payload.
Unpacked(message, ctx) == gcm_decrypt(message.cipher, ctx.key, message.iv)
================================================================================
