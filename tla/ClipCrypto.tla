------------------------------ MODULE ClipCrypto ------------------------------
(***************************************************************************)
(* src/crates/scpy-crypto/src/lib.rs, which runs in the browser: a room    *)
(* has a random key; the key is kept wrapped under a key derived from the  *)
(* password and a random salt; a text is encrypted under the room key with *)
(* its version as associated data.                                         *)
(*                                                                         *)
(* Cryptography is symbolic: a box opens with the key and the associated   *)
(* data that it was sealed with, and with nothing else.  Keys and salts    *)
(* are numbers, a new one each time; nonces and base64 tell nothing apart. *)
(***************************************************************************)
EXTENDS Naturals

CONSTANTS
    Empty,   \* a password of blanks
    Failed   \* the error instead of a key or a text

NoData == 0

(* XChaCha20-Poly1305 *)
Seal(key, aad, content) == [key |-> key, aad |-> aad, content |-> content]
Unseal(key, aad, box) == IF box.key = key /\ box.aad = aad THEN box.content ELSE Failed

EnsurePassword(password) == password # Empty

(* Argon2id *)
WrappingKey(password, salt) == [password |-> password, salt |-> salt]

EncryptClipboard(key, text, version) ==
    [version |-> version, box |-> Seal(key, version, text)]

DecryptClipboard(key, envelope) == Unseal(key, envelope.version, envelope.box)

(* random is what the generator returns for the salt and for the room key. *)
EncryptedRoom(password, text, random) ==
    [meta |-> [salt |-> random,
               wrapped |-> Seal(WrappingKey(password, random), NoData, random)],
     envelope |-> EncryptClipboard(random, text, 1)]

UnwrapUnchecked(password, meta) == meta.wrapped.content

UnlockRoomKey(password, meta) ==
    IF EnsurePassword(password)
    THEN Unseal(WrappingKey(password, meta.salt), NoData, meta.wrapped)
    ELSE Failed
=============================================================================
