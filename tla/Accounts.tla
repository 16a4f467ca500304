------------------------------ MODULE Accounts ------------------------------
(***************************************************************************)
(* The users feature and the session tokens of package auth: Register,     *)
(* Login and Profile by concurrent handlers over one table, one statement  *)
(* at a time; the nightly dump of that table and a restore from it.        *)
(*                                                                         *)
(* Users write their address in any spelling.  Of a password the code sees *)
(* its length and what bcrypt compares, its first 72 bytes.  The clock     *)
(* counts Grain ticks to a second, since tokens keep whole seconds.        *)
(***************************************************************************)
EXTENDS Integers, FiniteSets

CONSTANTS
  Workers,     \* handlers
  Ids,         \* uuids
  Addresses,   \* normalized, valid addresses
  Spellings,   \* what users type for one
  Normal,      \* normalizeEmail, per spelling
  Passwords,
  Bytes,       \* the length of a password
  Digest,      \* what bcrypt compares
  Calls,       \* what clients ask of the public routes, see Call
  TokenTTL,    \* in ticks
  Grain,
  Nothing,     \* no row, no call
  MaxTime,     \* bound: the last tick
  MaxTokens,   \* bound: tokens issued or about to be
  MaxFaults,   \* bound: statements that fail or whose answer is lost
  MaxRestores  \* bound: restores of a dump

Call == [op: {"register", "login"}, spelling: Spellings, password: Passwords]

ASSUME InputsAreTyped ==
  /\ DOMAIN Normal = Spellings
  /\ DOMAIN Digest = Passwords
  /\ Bytes \in [Passwords -> Nat]
  /\ Calls \subseteq Call

ASSUME BoundsAreNat ==
  /\ TokenTTL \in Nat /\ Grain \in Nat \ {0}
  /\ MaxTime \in Nat /\ MaxTokens \in Nat /\ MaxFaults \in Nat /\ MaxRestores \in Nat

\* A row of the users table.  No rule reads the display name.
User == [id: Ids, email: Addresses, hash: {Digest[p] : p \in Passwords}]

\* What somebody was told opens an account.
Credentials == [email: Addresses, password: Passwords]

\* A session token: sub and exp are its claims, by and at recall the login that
\* issued it.
Token == [sub: Ids, exp: Int, by: Credentials, at: Int]

ASSUME NothingIsNull == Nothing \notin User \cup Calls \cup Token

VARIABLES
  users,       \* the table
  minted,      \* ids ever stored: uuid.New repeats none
  promised,    \* credentials that were answered 201
  dump,        \* users and promised as of the last backup
  tokens,      \* that were issued
  pc, call,    \* of each handler; the call of GET /users/me is its token
  row,         \* the row Profile read
  answer,
  clock, faults, restores

table == <<users, minted, promised>>
world == <<clock, faults, restores>>
vars  == <<table, dump, tokens, pc, call, row, answer, world>>

Answers == {"none", "ok", "invalid", "email-taken", "invalid-credentials",
            "unauthorized", "user-not-found", "internal"}

TypeOK ==
  /\ users \in SUBSET User
  /\ minted \in SUBSET Ids
  /\ promised \in SUBSET Credentials
  /\ dump \in [users: SUBSET User, promised: SUBSET Credentials]
  /\ tokens \in SUBSET Token
  /\ pc \in [Workers -> {"idle", "insert", "select", "authenticate", "profile", "done"}]
  /\ call \in [Workers -> Calls \cup Token \cup {Nothing}]
  /\ row \in [Workers -> User \cup {Nothing}]
  /\ answer \in [Workers -> Answers]
  /\ clock \in 0 .. MaxTime /\ faults \in 0 .. MaxFaults /\ restores \in 0 .. MaxRestores

Init ==
  /\ users = {} /\ minted = {} /\ promised = {} /\ tokens = {}
  /\ dump = [users |-> {}, promised |-> {}]
  /\ pc = [w \in Workers |-> "idle"]
  /\ call = [w \in Workers |-> Nothing]
  /\ row = [w \in Workers |-> Nothing]
  /\ answer = [w \in Workers |-> "none"]
  /\ clock = 0 /\ faults = 0 /\ restores = 0

-----------------------------------------------------------------------------

Goto(w, step) == pc' = [pc EXCEPT ![w] = step] /\ UNCHANGED answer

Answer(w, what) ==
  pc' = [pc EXCEPT ![w] = "done"] /\ answer' = [answer EXCEPT ![w] = what]

Fault == faults < MaxFaults /\ faults' = faults + 1

ByEmail(email) == {u \in users : u.email = email}

\* Mistake: the address is normalized but not parsed.
MalformedLength(c) ==
  c.op = "register" /\ (Bytes[c.password] < 8 \/ Bytes[c.password] > 72)

\* What Register refuses; Login asks neither for a valid address nor for a
\* length.
Malformed(c) ==
  /\ c.op = "register"
  /\ \/ Normal[c.spelling] \notin Addresses
     \/ Bytes[c.password] < 8
     \/ Bytes[c.password] > 72

Arrive(w) ==
  /\ pc[w] = "idle"
  /\ \E c \in Calls :
       /\ c.op = "login" =>
            Cardinality(tokens) + Cardinality({v \in Workers : pc[v] = "select"}) < MaxTokens
       /\ call' = [call EXCEPT ![w] = c]
       /\ \/ Malformed(c) /\ Answer(w, "invalid")
          \/ ~Malformed(c) /\ Goto(w, IF c.op = "login" THEN "select" ELSE "insert")
  /\ UNCHANGED <<table, dump, tokens, row, world>>

\* GET /api/users/me with a token that was issued earlier.
ArriveMe(w) ==
  /\ pc[w] = "idle"
  /\ \E t \in tokens : call' = [call EXCEPT ![w] = t]
  /\ Goto(w, "authenticate")
  /\ UNCHANGED <<table, dump, tokens, row, world>>

Leave(w) ==
  /\ pc[w] = "done"
  /\ pc' = [pc EXCEPT ![w] = "idle"]
  /\ call' = [call EXCEPT ![w] = Nothing]
  /\ row' = [row EXCEPT ![w] = Nothing]
  /\ answer' = [answer EXCEPT ![w] = "none"]
  /\ UNCHANGED <<table, dump, tokens, world>>

\* A statement fails, or its client is gone.
Fails(w) ==
  /\ pc[w] \in {"insert", "select", "profile"}
  /\ Answer(w, "internal")
  /\ Fault
  /\ UNCHANGED <<table, dump, tokens, call, row, clock, restores>>

\* The credentials a call carries.
Given(c) == [email |-> Normal[c.spelling], password |-> c.password]

\* Mistake: the address is stored as it was typed.
NewUserAsTyped(id, c) == [id |-> id, email |-> c.spelling, hash |-> Digest[c.password]]

\* Register stores the normalized address.
NewUser(id, c) == [id |-> id, email |-> Normal[c.spelling], hash |-> Digest[c.password]]

\* Mistake: whether the address is free is asked before the password is hashed
\* and not again.
InsertAnyway(w) ==
  /\ pc[w] = "insert"
  /\ \E id \in Ids \ minted :
       /\ users' = users \cup {NewUser(id, call[w])}
       /\ minted' = minted \cup {id}
  /\ promised' = promised \cup {Given(call[w])}
  /\ Answer(w, "ok")
  /\ UNCHANGED <<dump, tokens, call, row, world>>

\* The INSERT.  The unique index decides; the row may be stored although the
\* answer of the database is lost.
InsertUser(w) ==
  /\ pc[w] = "insert"
  /\ \E id \in Ids \ minted :
       /\ ByEmail(Normal[call[w].spelling]) = {}
       /\ users' = users \cup {NewUser(id, call[w])}
       /\ minted' = minted \cup {id}
  /\ \/ Answer(w, "ok") /\ promised' = promised \cup {Given(call[w])} /\ UNCHANGED faults
     \/ Answer(w, "internal") /\ Fault /\ UNCHANGED promised
  /\ UNCHANGED <<dump, tokens, call, row, clock, restores>>

EmailTaken(w) ==
  /\ pc[w] = "insert"
  /\ ByEmail(Normal[call[w].spelling]) # {}
  /\ Answer(w, "email-taken")
  /\ UNCHANGED <<table, dump, tokens, call, row, world>>

\* Mistake: the expiry is rounded up to a second.
ExpiryRoundedUp(now) == ((now + TokenTTL + Grain - 1) \div Grain) * Grain

\* jwt.NewNumericDate drops the fraction of a second.
Expiry(now) == ((now + TokenTTL) \div Grain) * Grain

\* GenerateToken.
NewToken(u, c) == [sub |-> u.id, exp |-> Expiry(clock), by |-> Given(c), at |-> clock]

\* The SELECT by address, bcrypt, the token.
LoginGranted(w) ==
  /\ pc[w] = "select"
  /\ \E u \in ByEmail(Normal[call[w].spelling]) :
       /\ u.hash = Digest[call[w].password]
       /\ tokens' = tokens \cup {NewToken(u, call[w])}
  /\ Answer(w, "ok")
  /\ UNCHANGED <<table, dump, call, row, world>>

\* An unknown address and a wrong password get one answer.
LoginRefused(w) ==
  /\ pc[w] = "select"
  /\ \A u \in ByEmail(Normal[call[w].spelling]) : u.hash # Digest[call[w].password]
  /\ Answer(w, "invalid-credentials")
  /\ UNCHANGED <<table, dump, tokens, call, row, world>>

\* auth.Middleware, when the request begins.
Authenticate(w) ==
  /\ pc[w] = "authenticate"
  /\ IF clock < call[w].exp THEN Goto(w, "profile") ELSE Answer(w, "unauthorized")
  /\ UNCHANGED <<table, dump, tokens, call, row, world>>

\* Mistake: the profile is looked up by the address the session began with.
ProfileByEmail(w) ==
  /\ pc[w] = "profile"
  /\ \E u \in ByEmail(call[w].by.email) : row' = [row EXCEPT ![w] = u]
  /\ Answer(w, "ok")
  /\ UNCHANGED <<table, dump, tokens, call, world>>

Profile(w) ==
  /\ pc[w] = "profile"
  /\ \/ /\ \E u \in users : u.id = call[w].sub /\ row' = [row EXCEPT ![w] = u]
        /\ Answer(w, "ok")
     \/ /\ \A u \in users : u.id # call[w].sub
        /\ Answer(w, "user-not-found")
        /\ UNCHANGED row
  /\ UNCHANGED <<table, dump, tokens, call, world>>

-----------------------------------------------------------------------------

\* pg_dump reads one snapshot.
Backup ==
  /\ dump' = [users |-> users, promised |-> promised]
  /\ UNCHANGED <<table, tokens, pc, call, row, answer, world>>

\* An operator puts the dump back while the service is stopped.
Restore ==
  /\ restores < MaxRestores
  /\ \A w \in Workers : pc[w] = "idle"
  /\ users' = dump.users
  /\ promised' = dump.promised
  /\ restores' = restores + 1
  /\ UNCHANGED <<minted, dump, tokens, pc, call, row, answer, clock, faults>>

Tick ==
  /\ clock < MaxTime
  /\ clock' = clock + 1
  /\ UNCHANGED <<table, dump, tokens, pc, call, row, answer, faults, restores>>

Next ==
  \/ \E w \in Workers :
       \/ Arrive(w) \/ ArriveMe(w) \/ Leave(w) \/ Fails(w)
       \/ InsertUser(w) \/ EmailTaken(w) \/ LoginGranted(w) \/ LoginRefused(w)
       \/ Authenticate(w) \/ Profile(w)
  \/ Backup \/ Restore \/ Tick

Spec == Init /\ [][Next]_vars

-----------------------------------------------------------------------------

\* However registrations race, an address has one account.
OneAccountPerAddress == \A u, v \in users : u.email = v.email => u = v

\* Whoever was told 201 can log in with this password and any spelling of the
\* address; only a restore takes that back.
LoginIsKept ==
  [][\A w \in Workers :
       pc[w] = "select" /\ answer'[w] = "invalid-credentials" =>
         Given(call[w]) \notin promised]_vars

\* A session shows the account whose address and password began it or none: not
\* the one that has the address now, after a restore and a new registration.
ProfileIsOwn ==
  \A w \in Workers : pc[w] = "done" /\ row[w] # Nothing =>
    /\ row[w].email = call[w].by.email
    /\ row[w].hash = Digest[call[w].by.password]

\* A session is refused at its end and not earlier than within the last second.
SessionsLast ==
  [][\A w \in Workers : pc[w] = "authenticate" =>
       /\ pc'[w] = "profile" => clock < call[w].at + TokenTTL
       /\ pc'[w] = "done" => clock > call[w].at + TokenTTL - Grain]_vars
=============================================================================
