--------------------------- MODULE AccountsProofs ---------------------------
(***************************************************************************)
(* Theorems about Accounts, for any number of handlers, any addresses and  *)
(* passwords, and any number of faults and restores.                       *)
(***************************************************************************)
EXTENDS Accounts, TLAPS

\* Handlers serve the calls their steps are for.
Serving ==
  \A w \in Workers :
    /\ pc[w] = "insert" => call[w] \in Calls /\ Normal[call[w].spelling] \in Addresses
    /\ pc[w] = "select" => call[w] \in Calls
    /\ pc[w] \in {"authenticate", "profile"} => call[w] \in tokens
    /\ row[w] # Nothing => pc[w] = "done"
    /\ pc[w] # "done" => answer[w] = "none"

\* Every account there is or was in the dump.
Kept == users \cup dump.users

\* Ids are never drawn twice, so an id means one account, also across a restore.
IdsAreOnce ==
  /\ \A u \in Kept : u.id \in minted
  /\ \A u, v \in Kept : u.id = v.id => u = v
  /\ \A t \in tokens : t.sub \in minted

\* One account per address, in the table and in the dump.
Unique(rows) == \A u, v \in rows : u.email = v.email => u = v

\* A token names an account that its login's password opens, or one that is gone.
TokensAreOwn ==
  \A t \in tokens, u \in Kept :
    u.id = t.sub => u.email = t.by.email /\ u.hash = Digest[t.by.password]

\* Promised credentials have their account, in the table and in the dump.
Opens(rows, c) == \E u \in rows : u.email = c.email /\ u.hash = Digest[c.password]

PromisesAreKept ==
  /\ \A c \in promised : Opens(users, c)
  /\ \A c \in dump.promised : Opens(dump.users, c)

IInv ==
  /\ TypeOK
  /\ Serving
  /\ IdsAreOnce
  /\ Unique(users) /\ Unique(dump.users)
  /\ TokensAreOwn
  /\ PromisesAreKept
  /\ ProfileIsOwn

-----------------------------------------------------------------------------

LEMMA CallsTyped ==
  ASSUME NEW c \in Calls
  PROVE  /\ c.spelling \in Spellings /\ c.password \in Passwords
         /\ c \in Call
BY InputsAreTyped DEF Call

LEMMA ExpiryTyped ==
  ASSUME NEW now \in Int
  PROVE  Expiry(now) \in Int
<1>1. Grain \in Int /\ Grain > 0 /\ TokenTTL \in Int
  BY BoundsAreNat
<1>2. (now + TokenTTL) \div Grain \in Int
  BY <1>1
<1> QED BY <1>1, <1>2 DEF Expiry

LEMMA InitHolds == Init => IInv
<1> SUFFICES ASSUME Init PROVE IInv
  OBVIOUS
<1>1. TypeOK
  BY BoundsAreNat DEF Init, TypeOK, Answers
<1>2. Serving /\ ProfileIsOwn
  BY DEF Init, Serving, ProfileIsOwn
<1>3. IdsAreOnce /\ Unique(users) /\ Unique(dump.users) /\ TokensAreOwn /\ PromisesAreKept
  BY DEF Init, Kept, IdsAreOnce, Unique, TokensAreOwn, PromisesAreKept
<1> QED BY <1>1, <1>2, <1>3 DEF IInv

\* A step that touches no row, no token and no dump keeps what is said of them.
Untouched == UNCHANGED <<table, dump, tokens>>

LEMMA RowsKept ==
  ASSUME IInv, Untouched
  PROVE  /\ IdsAreOnce' /\ Unique(users)' /\ Unique(dump.users)'
         /\ TokensAreOwn' /\ PromisesAreKept'
BY DEF IInv, Untouched, table, Kept, IdsAreOnce, Unique, TokensAreOwn, PromisesAreKept, Opens

LEMMA ArriveKeeps == ASSUME IInv, NEW w \in Workers, Arrive(w) PROVE IInv'
<1> PICK c \in Calls :
      /\ call' = [call EXCEPT ![w] = c]
      /\ \/ Malformed(c) /\ Answer(w, "invalid")
         \/ ~Malformed(c) /\ Goto(w, IF c.op = "login" THEN "select" ELSE "insert")
  BY DEF Arrive
<1>0. UNCHANGED <<table, dump, tokens, row, world>> /\ pc[w] = "idle" /\ row[w] = Nothing
  BY DEF Arrive, IInv, Serving
<1>1. TypeOK'
  BY <1>0 DEF IInv, TypeOK, table, world, Answer, Goto, Answers
<1>2. c.op = "login" \/ c.op = "register"
  BY CallsTyped DEF Call
<1>3. Serving' /\ ProfileIsOwn'
  BY <1>0, <1>2 DEF IInv, TypeOK, Serving, ProfileIsOwn, Answer, Goto, Malformed
<1> QED BY <1>0, <1>1, <1>3, RowsKept DEF Untouched, IInv

LEMMA HandlersKeep ==
  ASSUME IInv, NEW w \in Workers,
         \/ ArriveMe(w) \/ Leave(w) \/ Fails(w) \/ EmailTaken(w)
         \/ LoginRefused(w) \/ Authenticate(w)
  PROVE  IInv'
<1>1. Untouched
  BY DEF Untouched, ArriveMe, Leave, Fails, EmailTaken, LoginRefused, Authenticate
<1>2. TypeOK'
  <2> USE DEF IInv, TypeOK, table, world, Answer, Goto, Answers
  <2>1. CASE ArriveMe(w)      BY <2>1 DEF ArriveMe
  <2>2. CASE Leave(w)         BY <2>2 DEF Leave
  <2>3. CASE Fails(w)         BY <2>3, BoundsAreNat DEF Fails, Fault
  <2>4. CASE EmailTaken(w)    BY <2>4 DEF EmailTaken
  <2>5. CASE LoginRefused(w)  BY <2>5 DEF LoginRefused
  <2>6. CASE Authenticate(w)  BY <2>6 DEF Authenticate
  <2> QED BY <2>1, <2>2, <2>3, <2>4, <2>5, <2>6
<1>3. Serving' /\ ProfileIsOwn'
  <2> USE DEF IInv, TypeOK, Serving, ProfileIsOwn, Answer, Goto
  <2>1. CASE ArriveMe(w)      BY <2>1 DEF ArriveMe
  <2>2. CASE Leave(w)         BY <2>2 DEF Leave
  <2>3. CASE Fails(w)         BY <2>3 DEF Fails
  <2>4. CASE EmailTaken(w)    BY <2>4 DEF EmailTaken
  <2>5. CASE LoginRefused(w)  BY <2>5 DEF LoginRefused
  <2>6. CASE Authenticate(w)  BY <2>6 DEF Authenticate
  <2> QED BY <2>1, <2>2, <2>3, <2>4, <2>5, <2>6
<1> QED BY <1>1, <1>2, <1>3, RowsKept DEF IInv

LEMMA ProfileKeeps == ASSUME IInv, NEW w \in Workers, Profile(w) PROVE IInv'
<1>1. Untouched /\ call[w] \in tokens /\ UNCHANGED <<call, world>>
  BY DEF Untouched, Profile, IInv, Serving
<1>2. CASE \E u \in users : u.id = call[w].sub /\ row' = [row EXCEPT ![w] = u] /\ Answer(w, "ok")
  <2> PICK u \in users : u.id = call[w].sub /\ row' = [row EXCEPT ![w] = u] /\ Answer(w, "ok")
    BY <1>2
  <2>1. u.email = call[w].by.email /\ u.hash = Digest[call[w].by.password]
    BY <1>1 DEF IInv, TokensAreOwn, Kept
  <2>2. TypeOK'
    BY <1>1 DEF IInv, TypeOK, Untouched, table, world, Answer, Answers
  <2>3. Serving' /\ ProfileIsOwn'
    BY <1>1, <2>1 DEF IInv, TypeOK, Serving, ProfileIsOwn, Answer, Untouched
  <2> QED BY <1>1, <2>2, <2>3, RowsKept DEF IInv
<1>3. CASE UNCHANGED row /\ Answer(w, "user-not-found")
  <2>1. row[w] = Nothing
    BY DEF Profile, IInv, Serving
  <2>2. TypeOK'
    BY <1>1, <1>3 DEF IInv, TypeOK, Untouched, table, world, Answer, Answers
  <2>3. Serving' /\ ProfileIsOwn'
    BY <1>1, <1>3, <2>1 DEF IInv, TypeOK, Serving, ProfileIsOwn, Answer, Untouched
  <2> QED BY <1>1, <2>2, <2>3, RowsKept DEF IInv
<1> QED BY <1>2, <1>3 DEF Profile

LEMMA InsertKeeps == ASSUME IInv, NEW w \in Workers, InsertUser(w) PROVE IInv'
<1> DEFINE c == call[w]
<1> PICK id \in Ids \ minted :
      /\ ByEmail(Normal[c.spelling]) = {}
      /\ users' = users \cup {NewUser(id, c)}
      /\ minted' = minted \cup {id}
  BY DEF InsertUser
<1> DEFINE new == NewUser(id, c)
<1>1. /\ c \in Calls /\ c.password \in Passwords /\ Normal[c.spelling] \in Addresses
      /\ pc[w] = "insert" /\ row[w] = Nothing
  BY CallsTyped DEF InsertUser, IInv, Serving
<1>2. UNCHANGED <<dump, tokens, call, row, clock, restores>>
  BY DEF InsertUser
<1>3. /\ new \in User /\ new.id = id
      /\ new.email = Given(c).email /\ new.hash = Digest[Given(c).password]
      /\ Given(c) \in Credentials
  BY <1>1 DEF NewUser, User, Given, Credentials
<1> HIDE DEF c, new
<1>4. promised' = promised \/ promised' = promised \cup {Given(c)}
  BY DEF InsertUser, c
<1>5. \A u \in users : u.email # new.email /\ u.id # id
  BY <1>3 DEF ByEmail, Given, IInv, IdsAreOnce, Kept
<1>6. users' = users \cup {new} /\ minted' = minted \cup {id} /\ id \notin minted
  BY DEF new
<1>7. TypeOK'
  <2>1. /\ users' \in SUBSET User /\ minted' \in SUBSET Ids
        /\ promised' \in SUBSET Credentials
    BY <1>3, <1>4, <1>6 DEF IInv, TypeOK
  <2>2. /\ pc' \in [Workers -> {"idle", "insert", "select", "authenticate", "profile", "done"}]
        /\ answer' \in [Workers -> Answers] /\ faults' \in 0 .. MaxFaults
    BY BoundsAreNat DEF InsertUser, Answer, Answers, Fault, IInv, TypeOK
  <2> QED BY <1>2, <2>1, <2>2 DEF IInv, TypeOK
<1>8. Serving' /\ ProfileIsOwn'
  BY <1>1, <1>2 DEF InsertUser, Answer, IInv, TypeOK, Serving, ProfileIsOwn
<1>9. IdsAreOnce'
  BY <1>2, <1>3, <1>6 DEF IInv, IdsAreOnce, Kept
<1>10. Unique(users)' /\ Unique(dump.users)'
  BY <1>2, <1>5, <1>6 DEF IInv, Unique
<1>11. TokensAreOwn'
  BY <1>2, <1>3, <1>6 DEF IInv, TokensAreOwn, IdsAreOnce, Kept
<1>12. PromisesAreKept'
  <2>1. \A d : Opens(users, d) => Opens(users', d)
    BY <1>6 DEF Opens
  <2>2. Opens(users', Given(c))
    BY <1>3, <1>6 DEF Opens
  <2> QED BY <1>2, <1>4, <2>1, <2>2 DEF IInv, PromisesAreKept, Opens
<1> QED BY <1>7, <1>8, <1>9, <1>10, <1>11, <1>12 DEF IInv

LEMMA LoginKeeps == ASSUME IInv, NEW w \in Workers, LoginGranted(w) PROVE IInv'
<1> DEFINE c == call[w]
<1> PICK u \in ByEmail(Normal[c.spelling]) :
      /\ u.hash = Digest[c.password]
      /\ tokens' = tokens \cup {NewToken(u, c)}
  BY DEF LoginGranted
<1> DEFINE new == NewToken(u, c)
<1>1. /\ c \in Calls /\ c.password \in Passwords
      /\ pc[w] = "select" /\ row[w] = Nothing
      /\ UNCHANGED <<table, dump, call, row, world>>
      /\ Answer(w, "ok")
  BY CallsTyped DEF LoginGranted, IInv, Serving
<1>2. u \in users /\ u.email = Normal[c.spelling] /\ u.email \in Addresses /\ u.id \in Ids
  BY DEF ByEmail, IInv, TypeOK, User
<1>3. clock \in Int /\ Expiry(clock) \in Int
  <2>1. clock \in Int
    BY BoundsAreNat DEF IInv, TypeOK
  <2> QED BY <2>1, ExpiryTyped
<1>4. new \in Token /\ new.sub = u.id /\ new.by = Given(c)
  BY <1>1, <1>2, <1>3 DEF NewToken, Token, Given, Credentials
<1>5. u.email = new.by.email /\ u.hash = Digest[new.by.password]
  BY <1>2, <1>4 DEF Given
<1>6. tokens' = tokens \cup {new}
  OBVIOUS
<1> HIDE DEF c, new
<1>7. TypeOK'
  BY <1>1, <1>4, <1>6 DEF IInv, TypeOK, table, world, Answer, Answers
<1>8. Serving' /\ ProfileIsOwn'
  BY <1>1, <1>6 DEF IInv, TypeOK, Serving, ProfileIsOwn, Answer
<1>9. IdsAreOnce'
  BY <1>1, <1>2, <1>4, <1>6 DEF IInv, IdsAreOnce, Kept, table
<1>10. TokensAreOwn'
  <2>1. \A v \in Kept : v.id = new.sub => v = u
    BY <1>2, <1>4 DEF IInv, IdsAreOnce, Kept
  <2> QED BY <1>1, <1>5, <1>6, <2>1 DEF IInv, TokensAreOwn, Kept, table
<1>11. Unique(users)' /\ Unique(dump.users)' /\ PromisesAreKept'
  BY <1>1 DEF IInv, Unique, PromisesAreKept, Opens, table
<1> QED BY <1>7, <1>8, <1>9, <1>10, <1>11 DEF IInv

LEMMA OperatorKeeps == ASSUME IInv, Backup \/ Restore \/ Tick PROVE IInv'
<1>1. CASE Backup
  <2>1. /\ dump' = [users |-> users, promised |-> promised]
        /\ dump'.users = users /\ dump'.promised = promised
        /\ UNCHANGED <<table, tokens, pc, call, row, answer, world>>
    BY <1>1 DEF Backup
  <2>2. TypeOK'
    BY <2>1 DEF IInv, TypeOK, table, world
  <2>3. Serving' /\ ProfileIsOwn'
    BY <2>1 DEF IInv, Serving, ProfileIsOwn
  <2>4. IdsAreOnce' /\ Unique(users)' /\ Unique(dump.users)' /\ TokensAreOwn' /\ PromisesAreKept'
    BY <2>1 DEF IInv, Kept, IdsAreOnce, Unique, TokensAreOwn, PromisesAreKept, Opens, table
  <2> QED BY <2>2, <2>3, <2>4 DEF IInv
<1>2. CASE Restore
  <2>1. /\ users' = dump.users /\ promised' = dump.promised
        /\ UNCHANGED <<minted, dump, tokens, pc, call, row, answer, clock, faults>>
        /\ restores' \in 0 .. MaxRestores
    BY <1>2, BoundsAreNat DEF Restore, IInv, TypeOK
  <2>2. TypeOK'
    BY <2>1 DEF IInv, TypeOK
  <2>3. Serving' /\ ProfileIsOwn'
    BY <2>1 DEF IInv, Serving, ProfileIsOwn
  <2>4. IdsAreOnce' /\ Unique(users)' /\ Unique(dump.users)' /\ TokensAreOwn' /\ PromisesAreKept'
    BY <2>1 DEF IInv, Kept, IdsAreOnce, Unique, TokensAreOwn, PromisesAreKept, Opens
  <2> QED BY <2>2, <2>3, <2>4 DEF IInv
<1>3. CASE Tick
  <2>1. UNCHANGED <<table, dump, tokens, pc, call, row, answer, faults, restores>>
    BY <1>3 DEF Tick
  <2>2. TypeOK'
    BY <1>3, <2>1, BoundsAreNat DEF Tick, IInv, TypeOK, table
  <2>3. Serving' /\ ProfileIsOwn'
    BY <2>1 DEF IInv, Serving, ProfileIsOwn
  <2> QED BY <2>1, <2>2, <2>3, RowsKept DEF IInv, Untouched
<1> QED BY <1>1, <1>2, <1>3

LEMMA StutterKeeps == ASSUME IInv, UNCHANGED vars PROVE IInv'
<1>1. TypeOK'
  BY DEF IInv, TypeOK, vars, table, world
<1>2. Serving' /\ ProfileIsOwn'
  BY DEF IInv, Serving, ProfileIsOwn, vars
<1> QED BY <1>1, <1>2, RowsKept DEF IInv, Untouched, vars

LEMMA Inductive == Spec => []IInv
<1>1. ASSUME IInv, [Next]_vars PROVE IInv'
  <2>1. CASE UNCHANGED vars
    BY <1>1, <2>1, StutterKeeps
  <2>2. CASE Backup \/ Restore \/ Tick
    BY <1>1, <2>2, OperatorKeeps
  <2>3. ASSUME NEW w \in Workers,
               \/ Arrive(w) \/ ArriveMe(w) \/ Leave(w) \/ Fails(w)
               \/ InsertUser(w) \/ EmailTaken(w) \/ LoginGranted(w) \/ LoginRefused(w)
               \/ Authenticate(w) \/ Profile(w)
        PROVE  IInv'
    BY <1>1, <2>3, ArriveKeeps, HandlersKeep, ProfileKeeps, InsertKeeps, LoginKeeps
  <2> QED BY <1>1, <2>1, <2>2, <2>3 DEF Next
<1> QED BY InitHolds, <1>1, PTL DEF Spec

-----------------------------------------------------------------------------

\* The model is well typed.
THEOREM AccountsTyped == Spec => []TypeOK
BY Inductive, PTL DEF IInv

\* However registrations race and whatever is restored, no two accounts share an
\* address.
THEOREM AddressesAreUnique == Spec => []OneAccountPerAddress
<1>1. IInv => OneAccountPerAddress
  BY DEF IInv, Unique, OneAccountPerAddress
<1> QED BY <1>1, Inductive, PTL

\* A session never shows another account than the one that was logged into,
\* although the account may be gone and its address taken anew.
THEOREM SessionsAreOwn == Spec => []ProfileIsOwn
BY Inductive, PTL DEF IInv

\* What Register answered 201 to opens the account from then on.
THEOREM PromisedLoginsWork == Spec => LoginIsKept
<1> DEFINE A == \A w \in Workers :
                  pc[w] = "select" /\ answer'[w] = "invalid-credentials" =>
                    Given(call[w]) \notin promised
<1>1. ASSUME IInv, IInv', [Next]_vars PROVE [A]_vars
  <2> SUFFICES ASSUME Next, NEW w \in Workers, pc[w] = "select",
                      answer'[w] = "invalid-credentials"
               PROVE  Given(call[w]) \notin promised
    BY <1>1 DEF A
  <2>1. answer[w] = "none"
    BY <1>1 DEF IInv, Serving
  <2>2. ~UNCHANGED answer
    BY <2>1
  <2>3. LoginRefused(w)
    <3>1. PICK v \in Workers :
            \/ Arrive(v) \/ ArriveMe(v) \/ Leave(v) \/ Fails(v)
            \/ InsertUser(v) \/ EmailTaken(v) \/ LoginGranted(v) \/ LoginRefused(v)
            \/ Authenticate(v) \/ Profile(v)
      BY <2>2 DEF Next, Backup, Restore, Tick
    <3>2. v = w
      BY <1>1, <2>1, <3>1 DEF IInv, TypeOK, Arrive, ArriveMe, Leave, Fails, InsertUser,
           EmailTaken, LoginGranted, LoginRefused, Authenticate, Profile, Answer, Goto
    <3> QED BY <1>1, <3>1, <3>2 DEF IInv, TypeOK, Arrive, ArriveMe, Leave, Fails, InsertUser,
           EmailTaken, LoginGranted, Authenticate, Profile, Answer
  <2>4. ~Opens(users, Given(call[w]))
    BY <2>3 DEF LoginRefused, ByEmail, Opens, Given
  <2> QED BY <1>1, <2>4 DEF IInv, PromisesAreKept
<1>2. IInv /\ IInv' /\ [Next]_vars => [A]_vars
  BY <1>1
<1> QED BY <1>2, Inductive, PTL DEF Spec, LoginIsKept

-----------------------------------------------------------------------------

\* A token carries the expiry its login computed.
ExpiriesAreKept == \A t \in tokens : t.exp = Expiry(t.at)

\* The expiry is at most the lifetime ahead, and misses it by less than a second.
LEMMA ExpiryBounds ==
  ASSUME NEW at \in Int
  PROVE  /\ Expiry(at) \in Int
         /\ Expiry(at) <= at + TokenTTL
         /\ Expiry(at) > at + TokenTTL - Grain
<1> DEFINE x == at + TokenTTL
           q == x \div Grain
<1>1. Grain \in Int /\ Grain > 0 /\ TokenTTL \in Int /\ x \in Int
  BY BoundsAreNat
<1> HIDE DEF x
<1>2. q \in Int /\ x % Grain \in 0 .. Grain - 1 /\ x = Grain * q + (x % Grain)
  BY <1>1
<1> HIDE DEF q
<1>3. q * Grain = Grain * q /\ q * Grain \in Int
  BY <1>1, <1>2
<1>4. q * Grain <= x /\ q * Grain > x - Grain
  BY <1>1, <1>2, <1>3
<1>5. Expiry(at) = q * Grain
  BY DEF Expiry, q, x
<1> QED BY <1>1, <1>3, <1>4, <1>5 DEF x

LEMMA ExpiriesKept ==
  ASSUME IInv, ExpiriesAreKept, [Next]_vars
  PROVE  ExpiriesAreKept'
<1>1. CASE UNCHANGED tokens
  BY <1>1 DEF ExpiriesAreKept, Expiry
<1>2. ASSUME NEW w \in Workers, LoginGranted(w)
      PROVE  ExpiriesAreKept'
  <2>1. PICK u \in ByEmail(Normal[call[w].spelling]) :
          tokens' = tokens \cup {NewToken(u, call[w])}
    BY <1>2 DEF LoginGranted
  <2>2. NewToken(u, call[w]).exp = Expiry(NewToken(u, call[w]).at)
    BY DEF NewToken
  <2> QED BY <2>1, <2>2 DEF ExpiriesAreKept, Expiry
<1> QED
  BY <1>1, <1>2
     DEF Next, vars, Arrive, ArriveMe, Leave, Fails, InsertUser, EmailTaken,
         LoginRefused, Authenticate, Profile, Backup, Restore, Tick

\* Only its own authentication moves a handler past that step.
LEMMA AuthenticateDecides ==
  ASSUME IInv, Next, NEW w \in Workers, pc[w] = "authenticate", pc'[w] # pc[w]
  PROVE  Authenticate(w)
<1>1. PICK v \in Workers :
        \/ Arrive(v) \/ ArriveMe(v) \/ Leave(v) \/ Fails(v)
        \/ InsertUser(v) \/ EmailTaken(v) \/ LoginGranted(v) \/ LoginRefused(v)
        \/ Authenticate(v) \/ Profile(v)
  BY DEF Next, Backup, Restore, Tick
<1>2. \A s : pc' = [pc EXCEPT ![v] = s] => v = w
  BY DEF IInv, TypeOK
<1>3. v = w
  BY <1>1, <1>2
     DEF Arrive, ArriveMe, Leave, Fails, InsertUser, EmailTaken, LoginGranted,
         LoginRefused, Authenticate, Profile, Answer, Goto
<1> QED
  BY <1>1, <1>3
     DEF Arrive, ArriveMe, Leave, Fails, InsertUser, EmailTaken, LoginGranted,
         LoginRefused, Profile

\* Whole seconds in the token cut a session short by less than a second and
\* never lengthen it, for every lifetime, also one that is no whole number.
THEOREM SessionsLastAsPromised == Spec => SessionsLast
<1> DEFINE A == \A w \in Workers : pc[w] = "authenticate" =>
                  /\ pc'[w] = "profile" => clock < call[w].at + TokenTTL
                  /\ pc'[w] = "done" => clock > call[w].at + TokenTTL - Grain
<1>1. ASSUME IInv, ExpiriesAreKept, Next PROVE A
  <2> SUFFICES ASSUME NEW w \in Workers, pc[w] = "authenticate",
                      pc'[w] \in {"profile", "done"}
               PROVE  /\ pc'[w] = "profile" => clock < call[w].at + TokenTTL
                      /\ pc'[w] = "done" => clock > call[w].at + TokenTTL - Grain
    OBVIOUS
  <2>1. Authenticate(w)
    BY <1>1, AuthenticateDecides
  <2>2. call[w] \in tokens /\ call[w] \in Token
    BY <1>1 DEF IInv, Serving, TypeOK
  <2>3. call[w].at \in Int /\ call[w].exp = Expiry(call[w].at) /\ clock \in Int
    BY <1>1, <2>2, BoundsAreNat DEF Token, ExpiriesAreKept, IInv, TypeOK
  <2>4. /\ call[w].exp \in Int
        /\ call[w].exp <= call[w].at + TokenTTL
        /\ call[w].exp > call[w].at + TokenTTL - Grain
    BY <2>3, ExpiryBounds
  <2>5. /\ pc'[w] = "profile" => clock < call[w].exp
        /\ pc'[w] = "done" => ~(clock < call[w].exp)
    BY <1>1, <2>1 DEF Authenticate, Goto, Answer, IInv, TypeOK
  <2> QED BY <2>3, <2>4, <2>5, BoundsAreNat
<1>2. IInv /\ ExpiriesAreKept /\ [Next]_vars => [A]_vars
  BY <1>1
<1>3. Init => ExpiriesAreKept
  BY DEF Init, ExpiriesAreKept
<1>4. IInv /\ ExpiriesAreKept /\ [Next]_vars => ExpiriesAreKept'
  BY ExpiriesKept
<1> QED BY <1>2, <1>3, <1>4, Inductive, PTL DEF Spec, SessionsLast
=============================================================================
