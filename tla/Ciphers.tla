------------------------------- MODULE Ciphers ------------------------------
(***************************************************************************)
(* What the client's wrappers of Crypto++ do to a text: how long a content *)
(* is once it is encrypted, and with which key it comes out again.  A key  *)
(* is opaque; a key pair is known by its public key.                       *)
(***************************************************************************)
EXTENDS Integers

DEFAULT_KEYLENGTH == 16   \* of AES, in bytes
BLOCKSIZE         == 16   \* of AES, in bytes
BITS              == 1024 \* of RSA

\* CBC with the default padding: the text grows to the next whole block.
aes_encrypt(length) == BLOCKSIZE * (length \div BLOCKSIZE + 1)

\* A symmetric key for RSA fits in one block of the key's size.
rsa_encrypt(length) == BITS \div 8

\* With another key than the one it was encrypted with a content does not come out.
aes_decrypts(key, encryptedWith) == key = encryptedWith

\* The private key of a pair decrypts what its public key encrypted.
rsa_decrypts(pair, encryptedWith) == pair = encryptedWith

\* The contents of messages: a request for a key, a key, a text or a file
IsContentSize(n) ==
  \/ n = 0
  \/ n = rsa_encrypt(DEFAULT_KEYLENGTH)
  \/ \E length \in 0 .. n : n = aes_encrypt(length)
=============================================================================
