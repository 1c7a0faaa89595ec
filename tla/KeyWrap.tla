------------------------------ MODULE KeyWrap ------------------------------
(***************************************************************************)
(* How a session key travels between two friends (client/main.cpp:         *)
(* encrypt_ECC, decrypt_ECC).  The ciphers are taken as they are meant to  *)
(* work: two parties of an X25519 exchange derive one secret, nobody else  *)
(* derives it, and what AES and its padding made under one key is refused  *)
(* under another.  (A key of 32 bytes is padded to 48, and another key     *)
(* would have to yield 16 equal bytes of padding: with fewer the size is   *)
(* not 32 and decrypt_ECC throws.)                                         *)
(***************************************************************************)

(* The public half of the private key x.                                   *)
Public(x) == [half |-> x]

(* EVP_PKEY_derive and SHA256: the same from either side.                  *)
Shared(x, p) == {x, p.half}

(* encrypt_ECC: the public half of a key made for this one message, and    *)
(* the AES key sealed with the secret it shares with the receiver's key.   *)
Wrap(k, p, once) == [once |-> Public(once), seal |-> Shared(once, p), key |-> k]

(* decrypt_ECC: the AES key, or nothing when it throws.                    *)
Unwrap(x, w) == IF w.seal = Shared(x, w.once) THEN <<w.key>> ELSE <<>>
=============================================================================
