------------------------------ MODULE Algorithms ------------------------------
(***************************************************************************)
(* The cryptographic algorithms, as far as the two ends of a session can   *)
(* tell: which key an object holds, which key its cipher was last loaded   *)
(* with, and what a cipher keeps from one message to the next.             *)
(*                                                                         *)
(* AES_CBC chains the messages: the first block of a message is combined   *)
(* with the last block of the one before, in each direction, so that a     *)
(* message is read only by a cipher that has read all those before it.     *)
(* What is read with another key, or out of turn, is noise.                *)
(*                                                                         *)
(* A method that may throw gives [object, ok]: the object as it is left,   *)
(* and whether the call returned.                                          *)
(***************************************************************************)
CONSTANTS
    NoKey,       \* an empty QByteArray
    Suitable,    \* the keys of a length that AES takes
    Pairs        \* the RSA keys that can be loaded; a pair is one value

ASSUME KeysAssumption == NoKey \notin Suitable /\ NoKey \notin Pairs

Returns(object) == [object |-> object, ok |-> TRUE]
Throws(object) == [object |-> object, ok |-> FALSE]

-----------------------------------------------------------------------------
(* AESAlgorithmCBCMode: m_key, m_iv, and for m_aesEncryption and           *)
(* m_aesDecryption the key and the last block. A message is [key, after,   *)
(* plain], where after is the block it was chained to; it stands for its   *)
(* own last block as well.                                                 *)
Unloaded == [key |-> NoKey, last |-> NoKey]

NewAes == [key |-> NoKey, iv |-> NoKey, enc |-> Unloaded, dec |-> Unloaded]

Message(key, after, plain) == [key |-> key, after |-> after, plain |-> plain]

(* SetKeyWithIV of both ciphers: the chains start anew.                    *)
Load(aes) ==
    LET cipher == [key |-> aes.key, last |-> aes.iv]
    IN  [aes EXCEPT !.enc = cipher, !.dec = cipher]

Keyed(aes) == aes.key # NoKey /\ aes.iv # NoKey

GenerateKey(aes, key, iv) == Load([aes EXCEPT !.key = key, !.iv = iv])

SetKey(aes, key) ==
    IF key \notin Suitable THEN Throws(aes)
    ELSE LET set == [aes EXCEPT !.key = key]
         IN  Returns(IF set.iv # NoKey THEN Load(set) ELSE set)

MutSetIvKeepsCiphers(aes, iv) ==
    IF iv = NoKey THEN Throws(aes) ELSE Returns([aes EXCEPT !.iv = iv])

SetIv(aes, iv) ==
    IF iv = NoKey THEN Throws(aes)
    ELSE LET set == [aes EXCEPT !.iv = iv]
         IN  Returns(IF set.key # NoKey THEN Load(set) ELSE set)

(* encrypt, called with a key: the cipher text, and the object after it.   *)
AesEncrypt(aes, plain) == Message(aes.enc.key, aes.enc.last, plain)

MutEncryptLeavesChain(aes, plain) == aes

AfterEncrypt(aes, plain) == [aes EXCEPT !.enc.last = AesEncrypt(aes, plain)]

(* decrypt: whether the message can be read, and the object after it.      *)
AesReads(aes, message) ==
    /\ Keyed(aes)
    /\ aes.dec = [key |-> message.key, last |-> message.after]

AfterDecrypt(aes, message) ==
    IF Keyed(aes) THEN [aes EXCEPT !.dec.last = message] ELSE aes

(* The two ends of one direction: the next message that sender writes is   *)
(* the next that receiver can read.                                        *)
InStep(sender, receiver) == Keyed(sender) /\ Keyed(receiver) /\ sender.enc = receiver.dec

-----------------------------------------------------------------------------
(* RSAAlgorithmOAEPUsingSHA: m_publicKey, m_privateKey, and the keys that  *)
(* m_encryptor and m_decryptor were last made with. A key that cannot be   *)
(* loaded is forgotten, the encryptor or decryptor stays.                  *)
NewRsa == [public |-> NoKey, private |-> NoKey, encryptor |-> NoKey, decryptor |-> NoKey]

MutKeepsUnloadedKey(rsa, key) ==
    IF key = NoKey THEN Throws(rsa)
    ELSE IF key \notin Pairs THEN Throws([rsa EXCEPT !.public = key])
    ELSE Returns([rsa EXCEPT !.public = key, !.encryptor = key])

SetPublicKey(rsa, key) ==
    IF key = NoKey THEN Throws(rsa)
    ELSE IF key \notin Pairs THEN Throws([rsa EXCEPT !.public = NoKey])
    ELSE Returns([rsa EXCEPT !.public = key, !.encryptor = key])

SetPrivateKey(rsa, key) ==
    IF key = NoKey THEN Throws(rsa)
    ELSE IF key \notin Pairs THEN Throws([rsa EXCEPT !.private = NoKey])
    ELSE Returns([rsa EXCEPT !.private = key, !.decryptor = key])

GenerateKeys(rsa, pair) ==
    [public |-> pair, private |-> pair, encryptor |-> pair, decryptor |-> pair]

(* encrypt throws without a key. The cipher text is for the holder of the  *)
(* key it was made with.                                                   *)
CanEncrypt(rsa) == rsa.public # NoKey

RsaReads(rsa, key) == rsa.private # NoKey /\ rsa.decryptor = key

-----------------------------------------------------------------------------
(* RSASSA_PKCSv15_SHA256, likewise with a verifier and a signer.           *)
NewSigner == [public |-> NoKey, private |-> NoKey, verifier |-> NoKey, signer |-> NoKey]

SetVerifyKey(rsassa, key) ==
    IF key = NoKey THEN Throws(rsassa)
    ELSE IF key \notin Pairs THEN Throws([rsassa EXCEPT !.public = NoKey])
    ELSE Returns([rsassa EXCEPT !.public = key, !.verifier = key])

SetSignKey(rsassa, key) ==
    IF key = NoKey THEN Throws(rsassa)
    ELSE IF key \notin Pairs THEN Throws([rsassa EXCEPT !.private = NoKey])
    ELSE Returns([rsassa EXCEPT !.private = key, !.signer = key])

(* The constructors that clone uses load each key that is not empty.       *)
CloneSigner(rsassa) ==
    [public |-> rsassa.public, private |-> rsassa.private,
     verifier |-> rsassa.public, signer |-> rsassa.private]

(* verify throws without a public key.                                     *)
Verifies(rsassa, key) == rsassa.public # NoKey /\ rsassa.verifier = key
=============================================================================
