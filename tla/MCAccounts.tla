----------------------------- MODULE MCAccounts -----------------------------
(***************************************************************************)
(* A small instance of Accounts for TLC: one address in two spellings and  *)
(* an invalid one; of the passwords one is too short, two are fine, the    *)
(* second is 72 bytes long and the last goes on where it ends.             *)
(***************************************************************************)
EXTENDS Accounts, TLC

MCNormal == [plain |-> "ann", shouted |-> "ann", bad |-> "@"]

MCBytes  == [short |-> 7, first |-> 8, second |-> 72, beyond |-> 73]
MCDigest == [short |-> "s", first |-> "f", second |-> "72", beyond |-> "72"]

Register(s, p) == [op |-> "register", spelling |-> s, password |-> p]
Login(s, p)    == [op |-> "login", spelling |-> s, password |-> p]

MCCalls ==
  {Register("plain", "first"), Register("shouted", "second"), Register("bad", "first"),
   Register("plain", "short"), Register("plain", "beyond"),
   Login("shouted", "first"), Login("plain", "second"), Login("plain", "beyond")}

Symmetry == Permutations(Workers) \cup Permutations(Ids)
=============================================================================
