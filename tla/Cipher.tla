------------------------------- MODULE Cipher -------------------------------
(***************************************************************************)
(* The static data of aes.c that every encryption uses, as a value: m_Salt  *)
(* and the context m_Encrypt.  The random password and the random salt of   *)
(* an encryption are named after the message they are drawn for; a key is   *)
(* what PKCS5_PBKDF2_HMAC_SHA1 derives from the two.                        *)
(***************************************************************************)
EXTENDS Sequences

CONSTANTS Msgs, NoMsg

ASSUME NoMsgAssumption == NoMsg \notin Msgs

Keys == Msgs \X (Msgs \cup {NoMsg})      \* <<password, salt>>
NoKey == <<NoMsg, NoMsg>>

\* m_Encrypt: its key and what has been put through it since it was set up.
Contexts == [key : Keys \cup {NoKey}, fed : Seq(Msgs)]
Cleaned == [key |-> NoKey, fed |-> <<>>]

Ciphers == [salt : Msgs \cup {NoMsg}, ctx : Contexts]
Fresh == [salt |-> NoMsg, ctx |-> Cleaned]

\* Mutant of RandSalt: the salt is drawn once.
RandSaltOnce(c, m) == IF c.salt = NoMsg THEN [c EXCEPT !.salt = m] ELSE c

RandSalt(c, m) == [c EXCEPT !.salt = m]
DeriveKey(c, m) == <<m, c.salt>>
SetContext(c, key) == [c EXCEPT !.ctx = [key |-> key, fed |-> <<>>]]
Update(c, m) == [c EXCEPT !.ctx.fed = Append(@, m)]
Cleanup(c) == [c EXCEPT !.ctx = Cleaned]

\* A ciphertext: the context as EVP_EncryptUpdate and as EVP_EncryptFinal_ex
\* found it.  It is m under a salt if both worked for m with m's key.
Ciphertexts == [body : Contexts, last : Contexts]
Opens(text, m, salt) ==
  LET right == [key |-> <<m, salt>>, fed |-> <<m>>]
  IN  text = [body |-> right, last |-> right]
=============================================================================
