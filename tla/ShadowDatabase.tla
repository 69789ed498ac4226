--------------------------- MODULE ShadowDatabase ---------------------------
(***************************************************************************)
(* ShadowDatabase and ShadowContracts (crates/exex/src/db.rs,              *)
(* contracts.rs): what the EVM is told of an account and of a code hash.   *)
(* A `world` is reth's state at the start of a notification: the code of   *)
(* each address, NoCode for an account without code, or Absent.            *)
(***************************************************************************)
CONSTANTS Address,
          Code,        \* bytecodes other than the empty one
          NoCode,      \* the empty bytecode
          Absent,      \* there is no account
          Unloaded,    \* an AccountInfo without its bytecode
          ShadowJson   \* shadow.json: addresses -> shadow bytecode

ASSUME ShadowAssumption ==
  /\ DOMAIN ShadowJson \subseteq Address
  /\ \A a \in DOMAIN ShadowJson : ShadowJson[a] \in Code \cup {NoCode}
  /\ NoCode \notin Code /\ Absent \notin Code \cup {NoCode}
  /\ Unloaded \notin Code \cup {NoCode, Absent}

Worlds == [Address -> Code \cup {NoCode, Absent}]

\* keccak256 of a bytecode stands for that bytecode and no other.
HashOf(code) == [keccak |-> code]

AccountInfo ==
  [hash : {HashOf(c) : c \in Code \cup {NoCode}}, code : Code \cup {NoCode, Unloaded}]

Shadowed == DOMAIN ShadowJson

IsShadowed(address) == address \in Shadowed

\* Mutant: the account's own hash, and its bytecode is left to be looked up.
BasicUnshadowed(world, address) ==
  IF world[address] = Absent THEN Absent
  ELSE [hash |-> HashOf(world[address]), code |-> Unloaded]

\* basic_ref: an account reth knows, with the shadow bytecode and its hash if
\* the address is shadowed; an account reth does not know is not overridden.
Basic(world, address) ==
  IF world[address] = Absent THEN Absent
  ELSE IF IsShadowed(address)
       THEN [hash |-> HashOf(ShadowJson[address]), code |-> ShadowJson[address]]
       ELSE [hash |-> HashOf(world[address]), code |-> Unloaded]

\* ShadowContracts::code_by_hash: any shadow bytecode with that hash.
ShadowCodeByHash(hash) == {c \in {ShadowJson[a] : a \in Shadowed} : HashOf(c) = hash}

\* code_by_hash_ref: a shadow bytecode with that hash, or what reth has under
\* it; the error of a failing read becomes the empty bytecode.
CodeByHash(hash, unreadable) ==
  LET found == ShadowCodeByHash(hash)
      known == {c \in Code \ unreadable : HashOf(c) = hash}
  IN  CASE found # {} -> CHOOSE c \in found : TRUE
        [] found = {} /\ known # {} -> CHOOSE c \in known : TRUE
        [] OTHER -> NoCode
=============================================================================
