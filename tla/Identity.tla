------------------------------ MODULE Identity ------------------------------
(***************************************************************************)
(* The signing identity that programs share through a key file: each loads *)
(* the file when it starts (Composer._resolve_identity, `orx --identity`,  *)
(* `orx identity init`), and the one that cannot read it makes a new key   *)
(* and writes that in its place.  `orx identity did-web` prints the public *)
(* key of the file for the document that a did:web names; a did:key names  *)
(* the key itself.                                                         *)
(*                                                                         *)
(* Keys are numbered in the order they are made.  A key is locked with the *)
(* password the file is encrypted under, or with NoPassword.  Encodings,   *)
(* signatures and the network are left out: what is asked is which public  *)
(* key a reader of an event finds under the signer's DID.                  *)
(***************************************************************************)
EXTENDS Naturals

CONSTANTS Programs,
          Passwords, NoPassword,
          MaxKeys,    \* bound: keys made
          MaxDeaths   \* bound: programs that die while they write the file

\* What the instances ASSUME.
IdentityAssumption ==
  NoPassword \notin Passwords /\ MaxKeys \in Nat \ {0} /\ MaxDeaths \in Nat

VARIABLES
  file,      \* the key file: absent, torn, or whole with a key and its lock
  document,  \* the key of the hosted did.json, 0 for none
  program,   \* each program: where it is, its settings, its key
  keys,      \* number of keys made
  deaths,    \* how often a program died while writing
  disturbed  \* history: a program could not read the file for a reason of its own

vars == <<file, document, program, keys, deaths, disturbed>>

Locks == Passwords \cup {NoPassword}
NoFile == [state |-> "absent", key |-> 0, lock |-> NoPassword]
Torn == [NoFile EXCEPT !.state = "torn"]
Whole(key, lock) == [state |-> "whole", key |-> key, lock |-> lock]
Off == [pc |-> "off", password |-> NoPassword, method |-> "key", key |-> 0]

Init ==
  /\ file \in {NoFile} \cup {Whole(1, lock) : lock \in Locks}
  /\ keys = file.key /\ document = 0
  /\ program = [p \in Programs |-> Off]
  /\ deaths = 0 /\ disturbed = FALSE

\* A password is only for encrypted files (mutant).
OpensLocked(password) == file.state = "whole" /\ file.lock = password

\* A file that is not encrypted is read with a password, too; an encrypted one
\* has no private_key_b64 to be read without.
Opens(password) == file.state = "whole" /\ file.lock \in {NoPassword, password}

\* load_or_create_signing_key reads the file; unreadable is the same as absent.
Start(p, password, method) ==
  /\ program[p].pc = "off"
  /\ IF Opens(password)
       THEN /\ program' = [program EXCEPT ![p] = [pc |-> "on", password |-> password,
                                                  method |-> method, key |-> file.key]]
            /\ UNCHANGED keys
       ELSE /\ keys < MaxKeys /\ keys' = keys + 1
            /\ program' = [program EXCEPT ![p] = [pc |-> "made", password |-> password,
                                                  method |-> method, key |-> keys + 1]]
  /\ disturbed' = (\/ disturbed
                   \/ file.state = "torn"
                   \/ file.state = "whole" /\ file.lock \notin {NoPassword, password}
                   \/ \E q \in Programs : program[q].pc \in {"made", "writing"})
  /\ UNCHANGED <<file, document, deaths>>

\* write_text empties the file ...
Truncate(p) ==
  /\ program[p].pc = "made"
  /\ file' = Torn /\ program' = [program EXCEPT ![p].pc = "writing"]
  /\ UNCHANGED <<document, keys, deaths, disturbed>>

\* ... and writes it, encrypted when there is a password.
Write(p) ==
  /\ program[p].pc = "writing"
  /\ file' = Whole(program[p].key, program[p].password)
  /\ program' = [program EXCEPT ![p].pc = "on"]
  /\ UNCHANGED <<document, keys, deaths, disturbed>>

\* A program dies in the middle.
Die(p) ==
  /\ program[p].pc \in {"made", "writing"}
  /\ deaths < MaxDeaths /\ deaths' = deaths + 1
  /\ program' = [program EXCEPT ![p] = Off]
  /\ UNCHANGED <<file, document, keys, disturbed>>

\* A program ends; it is started anew with settings of its own.
End(p) ==
  /\ program[p].pc = "on"
  /\ program' = [program EXCEPT ![p] = Off]
  /\ UNCHANGED <<file, document, keys, deaths, disturbed>>

\* _cmd_did_web, and its output put on the host: an encrypted file is refused,
\* a torn one cannot be parsed.
Publish ==
  /\ file.state = "whole" /\ file.lock = NoPassword
  /\ document' = file.key
  /\ UNCHANGED <<file, program, keys, deaths, disturbed>>

Next ==
  \/ \E p \in Programs :
       \/ \E password \in Locks, method \in {"key", "web"} : Start(p, password, method)
       \/ Truncate(p) \/ Write(p) \/ Die(p) \/ End(p)
  \/ Publish

Spec == Init /\ [][Next]_vars
-----------------------------------------------------------------------------
\* The DID on a program's events: the one of its key, or the configured did:web.
Did(p) == [method |-> program[p].method,
           key |-> IF program[p].method = "key" THEN program[p].key ELSE 0]

\* The resolvers give the public key, or none: DidKeyResolver reads it off the
\* DID, DidWebResolver out of the document, and each refuses the other's DIDs.
KeyResolver(did) == IF did.method = "key" THEN {did.key} ELSE {}
WebResolver(did) == IF did.method = "web" THEN {document} \ {0} ELSE {}

\* CompositeResolver asks them in turn, and the first answer counts.
Resolved(did) ==
  LET first == KeyResolver(did) IN IF first # {} THEN first ELSE WebResolver(did)

TypeOK ==
  /\ file \in [state : {"absent", "torn", "whole"}, key : 0..MaxKeys, lock : Locks]
  /\ document \in 0..MaxKeys /\ keys \in 0..MaxKeys
  /\ program \in [Programs -> [pc : {"off", "made", "writing", "on"}, password : Locks,
                               method : {"key", "web"}, key : 0..MaxKeys]]
  /\ deaths \in 0..MaxDeaths /\ disturbed \in BOOLEAN

\* composer/schema.py:602 and cli/identity.py:80: the identity is that of the
\* key file.  Across restarts, under any passwords that open the file and
\* whatever is published when, all programs sign with the key of the file, and
\* whoever resolves the DID on an event finds the key it was signed with, or
\* none.  This is as much as the code gives: a wrong password, a file torn by
\* a death or read while another program writes it replaces the identity.
IdentityIsShared ==
  ~disturbed =>
    \A p \in Programs : program[p].pc = "on" =>
      /\ file = Whole(program[p].key, file.lock)
      /\ Resolved(Did(p)) \subseteq {program[p].key}
=============================================================================
