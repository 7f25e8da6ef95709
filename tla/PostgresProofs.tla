---------------------------- MODULE PostgresProofs ----------------------------
(***************************************************************************)
(* The durable repository implements the one of the tests: for every set   *)
(* of inputs, every call on the tables is the call on the dictionaries     *)
(* they stand for, with the same answer. One lemma per call (CreateUser-   *)
(* Matches and so on), which also shows that the call keeps its tables     *)
(* consistent (AccountsInv, BooksInv, MarketInv).                          *)
(***************************************************************************)
EXTENDS PostgresRepository, FoldTheorems, SequenceTheorems

(* Accounts: a user per id and per address, a token per id and per hash,     *)
(* every token of a user that is there.                                      *)
Emails == {Normal[a] : a \in Addresses}
UserRows == {r \in [id : Nat, email_hash : [hash : Emails], email_ciphertext : [sealed : Emails],
                    password : {"old", "new"}, verified : BOOLEAN] :
               r.email_hash.hash = r.email_ciphertext.sealed}
TokenRows == [id : Nat, user : Nat, hash : TokenHashes, kind : TokenKinds,
              consumed : BOOLEAN, revoked : BOOLEAN]
Numbered(rows, n) == \A r \in rows : r.id \in 1 .. n
UniqueEmails(rows) == \A r, s \in rows : r.email_hash = s.email_hash => r = s
UniqueHashes(rows) == \A r, s \in rows : r.hash = s.hash => r = s
UsersOk ==
  users \subseteq UserRows /\ UniqueIds(users) /\ UniqueEmails(users) /\ Numbered(users, writes)
TokensOk ==
  /\ auth_tokens \subseteq TokenRows /\ IsFiniteSet(auth_tokens)
  /\ UniqueIds(auth_tokens) /\ UniqueHashes(auth_tokens) /\ Numbered(auth_tokens, writes)
  /\ \A r \in auth_tokens : r.user \in IdsOf(users)
WritesOk == writes \in 0 .. MaxWrites
AccountsInv == UsersOk /\ TokensOk

-----------------------------------------------------------------------------
(* Rows and dictionaries.                                                    *)

(* Dictionaries are functions.                                               *)
IsDict(f) == f = [x \in DOMAIN f |-> f[x]]

(* The row of a set of one row.                                              *)
LEMMA TheOnly ==
  ASSUME NEW x
  PROVE  The({x}) = x /\ OneOrNone({x}) = x
  BY DEF The, OneOrNone

(* The row with an id, where ids are unique.                                 *)
LEMMA TheWithId ==
  ASSUME NEW R, UniqueIds(R), NEW r \in R
  PROVE  {s \in R : s.id = r.id} = {r} /\ The({s \in R : s.id = r.id}) = r
<1>1. {s \in R : s.id = r.id} = {r}
  BY DEF UniqueIds
<1> QED
  BY <1>1, TheOnly

(* When two tables have the same ids.                                        *)
LEMMA SameIds ==
  ASSUME NEW R, NEW T,
         \A r \in R : \E s \in T : s.id = r.id, \A s \in T : \E r \in R : r.id = s.id
  PROVE  IdsOf(R) = IdsOf(T)
  BY DEF IdsOf

(* The dictionary of users, of rows that stand for themselves, of addresses, *)
(* and of hashes, entry by entry.                                            *)
LEMMA UsersEntries ==
  ASSUME NEW R, UniqueIds(R)
  PROVE  /\ DOMAIN UsersById(R) = IdsOf(R) /\ IsDict(UsersById(R))
         /\ \A r \in R : r.id \in DOMAIN UsersById(R) /\ UsersById(R)[r.id] = UserFrom(r)
  BY TheWithId DEF IdsOf, UsersById, WithId, IsDict

(* Of rows that stand for themselves.                                        *)
LEMMA RowsEntries ==
  ASSUME NEW R, UniqueIds(R)
  PROVE  /\ DOMAIN ById(R) = IdsOf(R) /\ IsDict(ById(R))
         /\ \A r \in R : r.id \in DOMAIN ById(R) /\ ById(R)[r.id] = r
         /\ \A i \in DOMAIN ById(R) : ById(R)[i] \in R /\ ById(R)[i].id = i
<1>1. /\ DOMAIN ById(R) = IdsOf(R) /\ IsDict(ById(R))
      /\ \A r \in R : r.id \in DOMAIN ById(R) /\ ById(R)[r.id] = r
  BY TheWithId DEF IdsOf, ById, WithId, IsDict
<1>2. ASSUME NEW i \in DOMAIN ById(R)
      PROVE  ById(R)[i] \in R /\ ById(R)[i].id = i
  <2>1. PICK r \in R : r.id = i
    BY <1>1 DEF IdsOf
  <2> QED
    BY <1>1, <2>1
<1> QED
  BY <1>1, <1>2

(* Of addresses.                                                             *)
LEMMA EmailsEntries ==
  ASSUME NEW R \in SUBSET UserRows, UniqueEmails(R)
  PROVE  /\ DOMAIN ByEmail(R) = {r.email_ciphertext.sealed : r \in R} /\ IsDict(ByEmail(R))
         /\ \A r \in R : /\ r.email_ciphertext.sealed \in DOMAIN ByEmail(R)
                         /\ ByEmail(R)[r.email_ciphertext.sealed] = r.id
<1>1. \A r : UserFrom(r).email = r.email_ciphertext.sealed
  BY DEF UserFrom
<1>2. ByEmail(R) = [e \in {r.email_ciphertext.sealed : r \in R} |->
             The({r \in R : r.email_ciphertext.sealed = e}).id]
  BY <1>1 DEF ByEmail
<1>3. ASSUME NEW r \in R
      PROVE  The({s \in R : s.email_ciphertext.sealed = r.email_ciphertext.sealed}) = r
  <2>1. ASSUME NEW s \in R, s.email_ciphertext.sealed = r.email_ciphertext.sealed
        PROVE  s = r
    BY <2>1 DEF UniqueEmails, UserRows
  <2>2. {s \in R : s.email_ciphertext.sealed = r.email_ciphertext.sealed} = {r}
    BY <2>1
  <2> QED
    BY <2>2, TheOnly
<1> QED
  BY <1>2, <1>3 DEF IsDict

SameEmail(r, s) == s.email_ciphertext.sealed = r.email_ciphertext.sealed /\ s.id = r.id
LEMMA SameByEmail ==
  ASSUME NEW R \in SUBSET UserRows, UniqueEmails(R), NEW T \in SUBSET UserRows, UniqueEmails(T),
         \A r \in R : \E s \in T : SameEmail(r, s), \A s \in T : \E r \in R : SameEmail(r, s)
  PROVE  ByEmail(T) = ByEmail(R)
<1> DEFINE f == ByEmail(R)
           g == ByEmail(T)
<1>1. /\ DOMAIN f = {r.email_ciphertext.sealed : r \in R} /\ IsDict(f)
      /\ \A r \in R : f[r.email_ciphertext.sealed] = r.id
  BY EmailsEntries
<1>2. /\ DOMAIN g = {r.email_ciphertext.sealed : r \in T} /\ IsDict(g)
      /\ \A r \in T : g[r.email_ciphertext.sealed] = r.id
  BY EmailsEntries
<1> HIDE DEF f, g
<1>3. DOMAIN g = DOMAIN f
  BY <1>1, <1>2 DEF SameEmail
<1>4. ASSUME NEW e \in DOMAIN f
      PROVE  g[e] = f[e]
  <2>1. PICK r \in R : r.email_ciphertext.sealed = e
    BY <1>1
  <2>2. PICK s \in T : SameEmail(r, s)
    OBVIOUS
  <2> QED
    BY <1>1, <1>2, <2>1, <2>2 DEF SameEmail
<1>5. f = g
  BY <1>1, <1>2, <1>3, <1>4 DEF IsDict
<1> QED
  BY <1>5 DEF f, g

(* Of hashes.                                                                *)
LEMMA HashesEntries ==
  ASSUME NEW R, UniqueHashes(R)
  PROVE  /\ DOMAIN ByHash(R) = {r.hash : r \in R} /\ IsDict(ByHash(R))
         /\ \A r \in R : r.hash \in DOMAIN ByHash(R) /\ ByHash(R)[r.hash] = r.id
<1>1. ASSUME NEW r \in R
      PROVE  The({s \in R : s.hash = r.hash}) = r
  <2>1. {s \in R : s.hash = r.hash} = {r}
    BY DEF UniqueHashes
  <2> QED
    BY <2>1, TheOnly
<1> QED
  BY <1>1 DEF ByHash, IsDict

(* When one dictionary is another with an entry put.                         *)
LEMMA PutIs ==
  ASSUME NEW f, NEW g, NEW k, NEW v, IsDict(g),
         DOMAIN g = DOMAIN f \cup {k}, g[k] = v, \A x \in DOMAIN f : x # k => g[x] = f[x]
  PROVE  g = Memory!Put(f, k, v)
<1>1. Memory!Put(f, k, v) = [x \in DOMAIN g |-> IF x = k THEN v ELSE f[x]]
  BY DEF Memory!Put
<1>2. \A x \in DOMAIN g : g[x] = IF x = k THEN v ELSE f[x]
  OBVIOUS
<1> QED
  BY <1>1, <1>2 DEF IsDict

(* A row put among others is an entry put in the dictionary.                 *)
Puts(R, T, x) ==
  x \in T /\ IdsOf(T) = IdsOf(R) \cup {x.id} /\ \A r \in T : r.id # x.id => r \in R

(* Users.                                                                    *)
LEMMA UserPut ==
  ASSUME NEW R, UniqueIds(R), NEW T, UniqueIds(T), NEW x, Puts(R, T, x)
  PROVE  UsersById(T) = Memory!Put(UsersById(R), x.id, UserFrom(x))
<1>0. x \in T /\ IdsOf(T) = IdsOf(R) \cup {x.id} /\ \A r \in T : r.id # x.id => r \in R
  BY DEF Puts
<1> DEFINE f == UsersById(R)
           g == UsersById(T)
<1>1. /\ DOMAIN f = IdsOf(R) /\ \A r \in R : f[r.id] = UserFrom(r)
  BY UsersEntries
<1>5. /\ DOMAIN g = IdsOf(T) /\ \A r \in T : g[r.id] = UserFrom(r)
      /\ IsDict(g)
  BY UsersEntries
<1> HIDE DEF f, g
<1>2. ASSUME NEW i \in DOMAIN f, i # x.id
      PROVE  g[i] = f[i]
  <2>1. PICK r \in T : r.id = i
    BY <1>0, <1>1 DEF IdsOf
  <2>2. r \in R
    BY <1>0, <1>2, <2>1
  <2> QED
    BY <1>0, <1>1, <1>5, <2>1, <2>2
<1>3. DOMAIN g = DOMAIN f \cup {x.id} /\ g[x.id] = UserFrom(x)
  BY <1>0, <1>1, <1>5
<1>4. g = Memory!Put(f, x.id, UserFrom(x))
  BY <1>0, <1>2, <1>3, <1>5, PutIs
<1> QED
  BY <1>4 DEF f, g

(* Rows that stand for themselves.                                           *)
LEMMA SelfPut ==
  ASSUME NEW R, UniqueIds(R), NEW T, UniqueIds(T), NEW x, Puts(R, T, x)
  PROVE  ById(T) = Memory!Put(ById(R), x.id, x)
<1>0. x \in T /\ IdsOf(T) = IdsOf(R) \cup {x.id} /\ \A r \in T : r.id # x.id => r \in R
  BY DEF Puts
<1> DEFINE f == ById(R)
           g == ById(T)
<1>1. /\ DOMAIN f = IdsOf(R) /\ \A r \in R : f[r.id] = r
      /\ DOMAIN g = IdsOf(T) /\ \A r \in T : g[r.id] = r
      /\ IsDict(g)
  BY RowsEntries
<1> HIDE DEF f, g
<1>2. ASSUME NEW i \in DOMAIN f, i # x.id
      PROVE  g[i] = f[i]
  <2>1. PICK r \in T : r.id = i
    BY <1>0, <1>1 DEF IdsOf
  <2>2. r \in R
    BY <1>0, <1>2, <2>1
  <2> QED
    BY <1>1, <2>1, <2>2
<1>3. DOMAIN g = DOMAIN f \cup {x.id} /\ g[x.id] = x
  BY <1>0, <1>1
<1>4. g = Memory!Put(f, x.id, x)
  BY <1>0, <1>1, <1>2, <1>3, PutIs
<1> QED
  BY <1>4 DEF f, g

(* Addresses.                                                                *)
LEMMA EmailPut ==
  ASSUME NEW R \in SUBSET UserRows, UniqueEmails(R), NEW T \in SUBSET UserRows, UniqueEmails(T),
         NEW x, T = R \cup {x}
  PROVE  ByEmail(T) = Memory!Put(ByEmail(R), x.email_ciphertext.sealed, x.id)
<1> DEFINE f == ByEmail(R)
           g == ByEmail(T)
           e == x.email_ciphertext.sealed
<1>1. /\ DOMAIN f = {r.email_ciphertext.sealed : r \in R}
      /\ \A r \in R : f[r.email_ciphertext.sealed] = r.id
  BY EmailsEntries
<1>5. /\ DOMAIN g = {r.email_ciphertext.sealed : r \in T}
      /\ \A r \in T : g[r.email_ciphertext.sealed] = r.id
      /\ IsDict(g)
  BY EmailsEntries
<1> HIDE DEF f, g
<1>2. ASSUME NEW i \in DOMAIN f
      PROVE  g[i] = f[i]
  <2>1. PICK r \in R : r.email_ciphertext.sealed = i
    BY <1>1
  <2>2. r \in T
    OBVIOUS
  <2> QED
    BY <1>1, <1>5, <2>1, <2>2
<1>6. DOMAIN g = DOMAIN f \cup {e}
  <2>1. \A r \in T : r \in R \/ r = x
    OBVIOUS
  <2>2. (\A r \in R : r \in T) /\ x \in T
    OBVIOUS
  <2> HIDE DEF e
  <2> QED
    BY <1>1, <1>5, <2>1, <2>2 DEF e
<1>3. g[e] = x.id
  BY <1>1, <1>5
<1>4. g = Memory!Put(f, e, x.id)
  BY <1>2, <1>3, <1>5, <1>6, PutIs
<1> QED
  BY <1>4 DEF f, g

(* Hashes.                                                                   *)
LEMMA HashPut ==
  ASSUME NEW R, UniqueHashes(R), NEW T, UniqueHashes(T), NEW x, T = R \cup {x}
  PROVE  ByHash(T) = Memory!Put(ByHash(R), x.hash, x.id)
<1> DEFINE f == ByHash(R)
           g == ByHash(T)
<1>1. /\ DOMAIN f = {r.hash : r \in R} /\ \A r \in R : f[r.hash] = r.id
  BY HashesEntries
<1>5. /\ DOMAIN g = {r.hash : r \in T} /\ \A r \in T : g[r.hash] = r.id
      /\ IsDict(g)
  BY HashesEntries
<1> HIDE DEF f, g
<1>2. ASSUME NEW i \in DOMAIN f
      PROVE  g[i] = f[i]
  <2>1. PICK r \in R : r.hash = i
    BY <1>1
  <2>2. r \in T
    OBVIOUS
  <2> QED
    BY <1>1, <1>5, <2>1, <2>2
<1>6. DOMAIN g = DOMAIN f \cup {x.hash}
  <2>1. \A r \in T : r \in R \/ r = x
    OBVIOUS
  <2>2. (\A r \in R : r \in T) /\ x \in T
    OBVIOUS
  <2> HIDE DEF f
  <2> QED
    BY <1>1, <1>5, <2>1, <2>2
<1>3. g[x.hash] = x.id
  BY <1>1, <1>5
<1>4. g = Memory!Put(f, x.hash, x.id)
  BY <1>2, <1>3, <1>5, <1>6, PutIs
<1> QED
  BY <1>4 DEF f, g

(* The two modules mean the same by what they take from the library.         *)
LEMMA SameLibrary ==
  /\ \A S : Memory!Cardinality(S) = Cardinality(S)
  /\ \A S, T : Memory!Bijection(S, T) = Bijection(S, T)
  /\ \A s, x : Memory!Contains(s, x) = Contains(s, x)
  BY DEF Memory!Cardinality, Cardinality, Memory!Contains, Contains, Memory!Bijection, Bijection,
         Memory!Injection, Injection, Memory!Surjection, Surjection, Memory!IsInjective,
         IsInjective

(* As many rows as ids.                                                      *)
LEMMA AsManyIds ==
  ASSUME NEW R, IsFiniteSet(R), UniqueIds(R)
  PROVE  IsFiniteSet(IdsOf(R)) /\ Cardinality(IdsOf(R)) = Cardinality(R)
<1> DEFINE f == [r \in R |-> r.id]
<1>1. f \in [R -> IdsOf(R)] /\ \A r, s \in R : f[r] = f[s] => r = s
  BY DEF IdsOf, UniqueIds
<1>2. \A i \in IdsOf(R) : \E r \in R : f[r] = i
  BY DEF IdsOf
<1> HIDE DEF f
<1>3. f \in Bijection(R, IdsOf(R))
  BY <1>1, <1>2 DEF Bijection, Injection, Surjection, IsInjective
<1>4. ExistsBijection(R, IdsOf(R))
  BY <1>3 DEF ExistsBijection
<1> QED
  BY <1>4, FS_Bijection

(* What leaves the tables alone leaves the dictionaries alone.               *)
LEMMA UsersSame ==
  ASSUME UNCHANGED users
  PROVE  UNCHANGED <<DictUsers, DictEmails>>
  BY DEF DictUsers, DictEmails

(* Tokens.                                                                   *)
LEMMA TokensSame ==
  ASSUME UNCHANGED auth_tokens
  PROVE  UNCHANGED <<DictTokens, DictHashes>>
  BY DEF DictTokens, DictHashes

(* All of the accounts.                                                      *)
LEMMA AccountsSame ==
  ASSUME UNCHANGED accounts
  PROVE  UNCHANGED Memory!accounts
  BY UsersSame, TokensSame DEF accounts, Memory!accounts

(* The books.                                                                *)
LEMMA BooksSame ==
  ASSUME UNCHANGED books
  PROVE  /\ UNCHANGED <<DictPortfolios, DictMoves, DictTrades, DictSettings, DictValuations>>
         /\ UNCHANGED Memory!books
<1>1. /\ portfolios' = portfolios /\ portfolio_positions' = portfolio_positions
      /\ position_lots' = position_lots /\ background_jobs' = background_jobs
      /\ cash_transactions' = cash_transactions /\ trade_transactions' = trade_transactions
      /\ portfolio_settings' = portfolio_settings /\ valuation_snapshots' = valuation_snapshots
  BY DEF books
<1>2. DictPortfolios' = DictPortfolios
  BY <1>1 DEF DictPortfolios
<1>3. DictMoves' = DictMoves /\ DictTrades' = DictTrades /\ DictValuations' = DictValuations
  BY <1>1 DEF DictMoves, DictTrades, DictValuations, OfPortfolios, Of, MoveFrom, TradeFrom,
              ValuationFrom
<1>4. DictSettings' = DictSettings
  BY <1>1 DEF DictSettings, SettingsOf
<1> QED
  BY <1>2, <1>3, <1>4 DEF Memory!books

(* Market data.                                                              *)
LEMMA MarketSame ==
  ASSUME UNCHANGED market
  PROVE  UNCHANGED <<DictQuotes, DictOptions>> /\ UNCHANGED Memory!market
<1>1. market_quotes' = market_quotes /\ option_chain_snapshots' = option_chain_snapshots
  BY DEF market
<1>2. DictQuotes' = DictQuotes /\ DictOptions' = DictOptions
  BY <1>1 DEF DictQuotes, DictOptions
<1> QED
  BY <1>2 DEF Memory!market

(* A reading call is one there.                                              *)
LEMMA ReadMatches ==
  ASSUME NEW c, NEW a, Read(c, a)
  PROVE  Memory!Read(c, a)
<1>1. UNCHANGED accounts /\ UNCHANGED books /\ UNCHANGED market /\ UNCHANGED writes
  BY DEF Read
<1>2. UNCHANGED Memory!accounts /\ UNCHANGED Memory!books /\ UNCHANGED Memory!market
  BY <1>1, AccountsSame, BooksSame, MarketSame
<1> QED
  BY <1>1, <1>2 DEF Read, Call, Memory!Read, Memory!Call

(* A refusal, and the effect of a write on call, answer and writes.          *)
LEMMA RefusalMatches ==
  ASSUME NEW c, NEW e, Refuse(c, e)
  PROVE  Memory!Refuse(c, Memory!Raised(e))
  BY ReadMatches DEF Refuse, Raised, Memory!Refuse, Memory!Raised

(* A write.                                                                  *)
LEMMA WriteMatches ==
  ASSUME NEW c, NEW a, Write(c, a)
  PROVE  Memory!Write(c, a)
  BY DEF Write, Call, Memory!Write, Memory!Call

(* What is true of accounts stays true while they are left alone.            *)
LEMMA AccountsKept ==
  ASSUME AccountsInv, UNCHANGED accounts, writes' \in Nat, writes <= writes', WritesOk
  PROVE  AccountsInv'
<1>1. users' = users /\ auth_tokens' = auth_tokens
  BY DEF accounts
<1>2. \A i \in 1 .. writes : i \in 1 .. writes'
  BY DEF WritesOk
<1> QED
  BY <1>1, <1>2 DEF AccountsInv, UsersOk, TokensOk, UniqueIds, UniqueEmails, UniqueHashes,
                    Numbered, IdsOf

-----------------------------------------------------------------------------
(* create_user.                                                              *)
LEMMA CreateUserMatches ==
  ASSUME AccountsInv, WritesOk, NEW a \in Addresses, NEW w \in {"old", "new"}, CreateUser(a, w)
  PROVE  Memory!CreateUser(a, w) /\ (UNCHANGED accounts \/ AccountsInv')
<1> DEFINE e == Normal[a]
           row == [id |-> New, email_hash |-> EmailHash(a), email_ciphertext |-> Sealed(e),
                   password |-> w, verified |-> FALSE]
           c == <<"create_user", a, w>>
           user == [id |-> New, email |-> e, password |-> w, verified |-> FALSE]
<1>0. users \in SUBSET UserRows /\ UniqueIds(users) /\ UniqueEmails(users)
  BY DEF AccountsInv, UsersOk
<1>a. e \in Emails /\ EmailHash(a) = [hash |-> e] /\ Sealed(e) = [sealed |-> e]
  BY DEF Emails, EmailHash, Hashed, Sealed
<1>c. row = [id |-> New, email_hash |-> [hash |-> e], email_ciphertext |-> [sealed |-> e],
             password |-> w, verified |-> FALSE]
  BY <1>a
<1>b. e \in DOMAIN DictEmails <=> \E r \in users : r.email_hash = row.email_hash
  <2>1. DOMAIN DictEmails = {r.email_ciphertext.sealed : r \in users}
    BY <1>0, EmailsEntries DEF DictEmails
  <2>2. \A r \in users : r.email_ciphertext.sealed = e <=> r.email_hash = [hash |-> e]
    BY <1>0 DEF UserRows
  <2>3. row.email_hash = [hash |-> e]
    BY <1>a
  <2> QED
    BY <2>1, <2>2, <2>3
<1>1. CASE (\E r \in users : r.email_hash = row.email_hash) /\ Refuse(c, "ValueError")
  <2>1. Memory!Refuse(c, Memory!Raised("ValueError"))
    BY <1>1, RefusalMatches
  <2>2. UNCHANGED accounts
    BY <1>1 DEF Refuse, Read
  <2> QED
    BY <1>b, <1>1, <2>1, <2>2 DEF Memory!CreateUser
<1>2. CASE /\ \A r \in users : r.email_hash # row.email_hash
           /\ Write(c, UserFrom(row)) /\ users' = users \cup {row}
           /\ UNCHANGED <<auth_tokens, books, market>>
  <2>1. New \in Nat /\ writes' = New /\ New \in 1 .. New /\ (\A i \in 1 .. writes : i \in 1 .. New)
        /\ \A i \in 1 .. writes : i # New
    BY <1>2 DEF New, Write, WritesOk
  <2>2. row \in UserRows /\ UserFrom(row) = user
    <3> HIDE DEF row
    <3>1. UserFrom(row) = user
      BY <1>c DEF UserFrom
    <3> QED
      BY <1>a, <1>c, <2>1, <3>1 DEF UserRows
  <2>3. row.id = New /\ row.email_hash = [hash |-> e] /\ row.email_ciphertext.sealed = e
    BY <1>a
  <2> HIDE DEF row
  <2>4. \A r \in users : r.id # row.id
    BY <2>1, <2>3 DEF AccountsInv, UsersOk, Numbered
  <2>5. UniqueIds(users') /\ UniqueEmails(users') /\ users' \in SUBSET UserRows
    BY <1>0, <1>2, <2>2, <2>4 DEF UniqueIds, UniqueEmails
  <2>6. Numbered(users', writes')
    BY <1>2, <2>1, <2>3 DEF AccountsInv, UsersOk, Numbered
  <2>7. AccountsInv'
    BY <1>2, <2>1, <2>5, <2>6 DEF AccountsInv, UsersOk, TokensOk, Numbered, IdsOf
  <2>8. DictUsers' = Memory!Put(DictUsers, New, user)
    <3>1. IdsOf(users') = IdsOf(users) \cup {row.id} /\ row \in users'
      BY <1>2 DEF IdsOf
    <3>2. \A r \in users' : r.id # row.id => r \in users
      BY <1>2
    <3>3. Puts(users, users', row)
      BY <3>1, <3>2 DEF Puts
    <3> QED
      BY <1>0, <2>2, <2>3, <2>5, <3>3, UserPut DEF DictUsers
  <2>9. DictEmails' = Memory!Put(DictEmails, e, New)
    BY <1>0, <1>2, <2>3, <2>5, EmailPut DEF DictEmails
  <2>10. UNCHANGED <<DictTokens, DictHashes>> /\ UNCHANGED Memory!books /\ UNCHANGED Memory!market
    BY <1>2, TokensSame, BooksSame, MarketSame
  <2>11. Memory!Write(c, user)
    BY <1>2, <2>2, WriteMatches
  <2> QED
    BY <1>b, <1>2, <2>7, <2>8, <2>9, <2>10, <2>11 DEF Memory!CreateUser, New, Memory!New
<1> QED
  BY <1>1, <1>2 DEF CreateUser

(* get_user.                                                                 *)
LEMMA GetUserMatches ==
  ASSUME AccountsInv, NEW u, GetUser(u)
  PROVE  Memory!GetUser(u)
<1> DEFINE found == {x \in users : x.id = u}
<1>0. UniqueIds(users)
  BY DEF AccountsInv, UsersOk
<1>1. Memory!Read(<<"get_user", u>>, OneOrNone({UserFrom(r) : r \in found}))
  BY ReadMatches DEF GetUser
<1>2. DOMAIN DictUsers = IdsOf(users)
  BY <1>0, UsersEntries DEF DictUsers
<1>3. OneOrNone({UserFrom(r) : r \in found}) = Memory!Lookup(DictUsers, u)
  <2>1. CASE found = {}
    <3>1. u \notin DOMAIN DictUsers
      BY <1>2, <2>1 DEF IdsOf
    <3> QED
      BY <2>1, <3>1 DEF OneOrNone, Memory!Lookup
  <2>2. CASE found # {}
    <3>1. PICK r \in users : r.id = u
      BY <2>2
    <3>2. found = {r}
      BY <1>0, <3>1, TheWithId
    <3>3. {UserFrom(x) : x \in found} = {UserFrom(r)}
      BY <3>2
    <3>4. u \in DOMAIN DictUsers /\ DictUsers[u] = UserFrom(r)
      BY <1>0, <3>1, UsersEntries DEF DictUsers
    <3> QED
      BY <3>3, <3>4, TheOnly DEF Memory!Lookup
  <2> QED
    BY <2>1, <2>2
<1> QED
  BY <1>1, <1>3 DEF Memory!GetUser

(* get_user_by_email.                                                        *)
LEMMA GetUserByEmailMatches ==
  ASSUME AccountsInv, NEW a \in Addresses, GetUserByEmail(a)
  PROVE  Memory!GetUserByEmail(a)
<1> DEFINE e == Normal[a]
           found == {x \in users : x.email_hash = EmailHash(a)}
           there == Memory!Lookup(DictUsers, Memory!Lookup(DictEmails, e))
<1>0. users \in SUBSET UserRows /\ UniqueIds(users) /\ UniqueEmails(users)
  BY DEF AccountsInv, UsersOk
<1>1. Memory!Read(<<"get_user_by_email", a>>, OneOrNone({UserFrom(r) : r \in found}))
  BY ReadMatches DEF GetUserByEmail
<1>2. DOMAIN DictEmails = {r.email_ciphertext.sealed : r \in users}
  BY <1>0, EmailsEntries DEF DictEmails
<1>3. \A r \in users : r.email_ciphertext.sealed = e <=> r.email_hash = EmailHash(a)
  BY <1>0 DEF UserRows, EmailHash, Hashed
<1>4. OneOrNone({UserFrom(r) : r \in found}) = there
  <2>1. CASE found = {}
    <3>1. OneOrNone({UserFrom(r) : r \in found}) = None
      BY <2>1 DEF OneOrNone
    <3>2. e \notin DOMAIN DictEmails
      BY <1>2, <1>3, <2>1
    <3>3. None \notin DOMAIN DictUsers
      <4>1. DOMAIN DictUsers = IdsOf(users)
        BY <1>0, UsersEntries DEF DictUsers
      <4>2. \A r \in users : r.id \in Int
        BY <1>0 DEF UserRows
      <4> QED
        BY <4>1, <4>2, RepositoryInputs DEF IdsOf
    <3> QED
      BY <3>1, <3>2, <3>3 DEF Memory!Lookup
  <2>2. CASE found # {}
    <3>1. PICK r \in users : r.email_hash = EmailHash(a)
      BY <2>2
    <3>2. found = {r}
      BY <1>0, <3>1 DEF UniqueEmails
    <3>3. {UserFrom(x) : x \in found} = {UserFrom(r)}
      BY <3>2
    <3>4. OneOrNone({UserFrom(x) : x \in found}) = UserFrom(r)
      BY <3>3, TheOnly
    <3>5. e \in DOMAIN DictEmails /\ DictEmails[e] = r.id
      BY <1>0, <1>3, <3>1, EmailsEntries DEF DictEmails
    <3>6. r.id \in DOMAIN DictUsers /\ DictUsers[r.id] = UserFrom(r)
      BY <1>0, UsersEntries DEF DictUsers
    <3> QED
      BY <3>4, <3>5, <3>6 DEF Memory!Lookup
  <2> QED
    BY <2>1, <2>2
<1> QED
  BY <1>1, <1>4 DEF Memory!GetUserByEmail

(* A change of one user, by either of the two calls.                         *)
LEMMA UserChanged ==
  ASSUME AccountsInv, WritesOk, NEW c, NEW x \in users, NEW y \in UserRows,
         y.id = x.id, y.email_hash = x.email_hash,
         y.email_ciphertext.sealed = x.email_ciphertext.sealed,
         users' = (users \ {x}) \cup {y}, Write(c, UserFrom(WithId(users', x.id))),
         UNCHANGED <<auth_tokens, books, market>>
  PROVE  Memory!ChangeUser(c, x.id, UserFrom(y)) /\ AccountsInv'
<1>0. users \in SUBSET UserRows /\ UniqueIds(users) /\ UniqueEmails(users)
  BY DEF AccountsInv, UsersOk
<1>2. users' = (users \ {x}) \cup {y}
  OBVIOUS
<1>3. /\ y \in UserRows /\ y.id = x.id /\ y.email_hash = x.email_hash
      /\ y.email_ciphertext.sealed = x.email_ciphertext.sealed
  OBVIOUS
<1>4. UniqueIds(users') /\ UniqueEmails(users') /\ users' \in SUBSET UserRows
  BY <1>0, <1>2, <1>3 DEF UniqueIds, UniqueEmails
<1>5. IdsOf(users') = IdsOf(users)
  <2>1. \A s \in users' : \E r \in users : r.id = s.id
    BY <1>2, <1>3
  <2>2. \A r \in users : \E s \in users' : s.id = r.id
    BY <1>2, <1>3
  <2> QED
    BY <2>1, <2>2, SameIds
<1>6. AccountsInv'
  <2>1. writes' = writes + 1 /\ auth_tokens' = auth_tokens
    BY DEF Write
  <2>2. \A i \in 1 .. writes : i \in 1 .. writes'
    BY <2>1 DEF WritesOk
  <2>3. Numbered(users', writes') /\ Numbered(auth_tokens', writes')
    BY <1>2, <1>3, <2>1, <2>2 DEF Numbered, AccountsInv, UsersOk, TokensOk
  <2> QED
    BY <1>4, <1>5, <2>1, <2>3 DEF AccountsInv, UsersOk, TokensOk
<1>7. DictUsers' = Memory!Put(DictUsers, x.id, UserFrom(y))
  <2>1. Puts(users, users', y)
    <3>1. y \in users' /\ \A r \in users' : r.id # y.id => r \in users
      BY <1>2, <1>3
    <3>2. IdsOf(users) = IdsOf(users) \cup {y.id}
      BY <1>3 DEF IdsOf
    <3> QED
      BY <1>5, <3>1, <3>2 DEF Puts
  <2> QED
    BY <1>0, <1>3, <1>4, <2>1, UserPut DEF DictUsers
<1>8. DictEmails' = DictEmails
  <2>1. \A r \in users : \E s \in users' : SameEmail(r, s)
    BY <1>2, <1>3 DEF SameEmail
  <2>2. \A s \in users' : \E r \in users : SameEmail(r, s)
    BY <1>2, <1>3 DEF SameEmail
  <2> QED
    BY <1>0, <1>4, <2>1, <2>2, SameByEmail DEF DictEmails
<1>9. UserFrom(WithId(users', x.id)) = UserFrom(y)
  <2>1. y \in users'
    BY <1>2
  <2> QED
    BY <1>3, <1>4, <2>1, TheWithId DEF WithId
<1>10. Memory!Write(c, UserFrom(y))
  BY <1>9, WriteMatches
<1>11. x.id \in DOMAIN DictUsers
  BY <1>0, UsersEntries DEF DictUsers
<1>12. UNCHANGED <<DictTokens, DictHashes>> /\ UNCHANGED Memory!books /\ UNCHANGED Memory!market
  BY TokensSame, BooksSame, MarketSame
<1> QED
  BY <1>6, <1>7, <1>8, <1>10, <1>11, <1>12 DEF Memory!ChangeUser

(* mark_user_email_verified and update_user_password.                        *)
LEMMA UserRewritten ==
  ASSUME NEW x \in UserRows, NEW y, \/ y = [x EXCEPT !.verified = TRUE]
                                    \/ y = [x EXCEPT !.password = "new"]
  PROVE  /\ y \in UserRows /\ y.id = x.id /\ y.email_hash = x.email_hash
         /\ y.email_ciphertext.sealed = x.email_ciphertext.sealed
  BY DEF UserRows

(* A changed row reads as the changed user.                                  *)
LEMMA UserRead ==
  ASSUME NEW x \in UserRows
  PROVE  /\ UserFrom([x EXCEPT !.verified = TRUE]) = [UserFrom(x) EXCEPT !.verified = TRUE]
         /\ UserFrom([x EXCEPT !.password = "new"]) = [UserFrom(x) EXCEPT !.password = "new"]
<1>1. \A b : UserFrom([x EXCEPT !.verified = b]) = [UserFrom(x) EXCEPT !.verified = b]
  BY DEF UserRows, UserFrom
<1>2. UserFrom([x EXCEPT !.password = "new"]) = [UserFrom(x) EXCEPT !.password = "new"]
  BY DEF UserRows, UserFrom
<1> QED
  BY <1>1, <1>2

(* mark_user_email_verified and update_user_password.                        *)
LEMMA UpdateUserMatches ==
  ASSUME AccountsInv, WritesOk, NEW u
  PROVE  /\ MarkUserEmailVerified(u) =>
              Memory!MarkUserEmailVerified(u) /\ (UNCHANGED accounts \/ AccountsInv')
         /\ UpdateUserPassword(u, "new") =>
              Memory!UpdateUserPassword(u, "new") /\ (UNCHANGED accounts \/ AccountsInv')
<1> DEFINE x == WithId(users, u)
<1>0. users \in SUBSET UserRows /\ UniqueIds(users) /\ UniqueEmails(users)
  BY DEF AccountsInv, UsersOk
<1>a. DOMAIN DictUsers = IdsOf(users)
  BY <1>0, UsersEntries DEF DictUsers
<1>b. u \in IdsOf(users) => x \in users /\ x \in UserRows /\ x.id = u /\ DictUsers[u] = UserFrom(x)
  <2> SUFFICES ASSUME u \in IdsOf(users)
               PROVE  x \in users /\ x \in UserRows /\ x.id = u /\ DictUsers[u] = UserFrom(x)
    OBVIOUS
  <2>1. PICK r \in users : r.id = u
    BY DEF IdsOf
  <2>2. x = r
    BY <1>0, <2>1, TheWithId DEF WithId
  <2> QED
    BY <1>0, <2>1, <2>2, UsersEntries DEF DictUsers
<1> HIDE DEF x
<1>1. ASSUME NEW c, NEW user, u \notin IdsOf(users), Refuse(c, "KeyError")
      PROVE  Memory!ChangeUser(c, u, user) /\ UNCHANGED accounts
  <2>1. Memory!Refuse(c, Memory!Raised("KeyError"))
    BY <1>1, RefusalMatches
  <2>2. UNCHANGED accounts
    BY <1>1 DEF Refuse, Read
  <2> QED
    BY <1>a, <1>1, <2>1, <2>2 DEF Memory!ChangeUser
<1>2. ASSUME MarkUserEmailVerified(u)
      PROVE  Memory!MarkUserEmailVerified(u) /\ (UNCHANGED accounts \/ AccountsInv')
  <2> DEFINE c == <<"mark_user_email_verified", u>>
             y == [x EXCEPT !.verified = TRUE]
  <2>1. CASE u \notin IdsOf(users) /\ Refuse(c, "KeyError")
    BY <1>1, <2>1 DEF Memory!MarkUserEmailVerified
  <2>2. CASE /\ u \in IdsOf(users) /\ users' = (users \ {x}) \cup {y}
             /\ Write(c, UserFrom(WithId(users', u))) /\ UNCHANGED <<auth_tokens, books, market>>
    <3>1. /\ y \in UserRows /\ y.id = x.id /\ y.email_hash = x.email_hash
          /\ y.email_ciphertext.sealed = x.email_ciphertext.sealed
      BY <1>b, <2>2, UserRewritten
    <3>2. UserFrom(y) = [DictUsers[u] EXCEPT !.verified = TRUE]
      BY <1>b, <2>2, UserRead
    <3> HIDE DEF y, c
    <3>3. Memory!ChangeUser(c, u, UserFrom(y)) /\ AccountsInv'
      BY <1>b, <2>2, <3>1, UserChanged
    <3> QED
      BY <3>2, <3>3 DEF Memory!MarkUserEmailVerified, c
  <2> QED
    BY <1>2, <2>1, <2>2 DEF MarkUserEmailVerified, UpdateUser, x
<1>3. ASSUME UpdateUserPassword(u, "new")
      PROVE  Memory!UpdateUserPassword(u, "new") /\ (UNCHANGED accounts \/ AccountsInv')
  <2> DEFINE c == <<"update_user_password", u, "new">>
             y == [x EXCEPT !.password = "new"]
  <2>1. CASE u \notin IdsOf(users) /\ Refuse(c, "KeyError")
    BY <1>1, <2>1 DEF Memory!UpdateUserPassword
  <2>2. CASE /\ u \in IdsOf(users) /\ users' = (users \ {x}) \cup {y}
             /\ Write(c, UserFrom(WithId(users', u))) /\ UNCHANGED <<auth_tokens, books, market>>
    <3>1. /\ y \in UserRows /\ y.id = x.id /\ y.email_hash = x.email_hash
          /\ y.email_ciphertext.sealed = x.email_ciphertext.sealed
      BY <1>b, <2>2, UserRewritten
    <3>2. UserFrom(y) = [DictUsers[u] EXCEPT !.password = "new"]
      BY <1>b, <2>2, UserRead
    <3> HIDE DEF y, c
    <3>3. Memory!ChangeUser(c, u, UserFrom(y)) /\ AccountsInv'
      BY <1>b, <2>2, <3>1, UserChanged
    <3> QED
      BY <3>2, <3>3 DEF Memory!UpdateUserPassword, c
  <2> QED
    BY <1>3, <2>1, <2>2 DEF UpdateUserPassword, UpdateUser, x
<1> QED
  BY <1>2, <1>3

(* create_auth_token.                                                        *)
LEMMA CreateAuthTokenMatches ==
  ASSUME AccountsInv, WritesOk, NEW u, NEW h \in TokenHashes, NEW k \in TokenKinds,
         CreateAuthToken(u, h, k)
  PROVE  Memory!CreateAuthToken(u, h, k) /\ AccountsInv'
<1> DEFINE row == [id |-> New, user |-> u, hash |-> h, kind |-> k, consumed |-> FALSE,
                   revoked |-> FALSE]
           c == <<"create_auth_token", u, h, k>>
<1>0. /\ auth_tokens \in SUBSET TokenRows /\ UniqueIds(auth_tokens) /\ UniqueHashes(auth_tokens)
      /\ Numbered(auth_tokens, writes) /\ IsFiniteSet(auth_tokens)
      /\ UniqueIds(users) /\ Numbered(users, writes) /\ users \in SUBSET UserRows
  BY DEF AccountsInv, UsersOk, TokensOk
<1>1. /\ u \in IdsOf(users) /\ \A r \in auth_tokens : r.hash # h
      /\ Write(c, row) /\ auth_tokens' = auth_tokens \cup {row}
      /\ UNCHANGED <<users, books, market>>
  BY DEF CreateAuthToken
<1>2. /\ New \in Nat /\ writes' = New /\ New \in 1 .. New /\ \A i \in 1 .. writes : i \in 1 .. New
      /\ \A i \in 1 .. writes : i # New
  BY <1>1 DEF New, Write, WritesOk
<1>3. row \in TokenRows /\ row.id = New /\ row.hash = h /\ row.user = u
  <2>1. u \in Nat
    BY <1>0, <1>1 DEF IdsOf, UserRows
  <2> QED
    BY <1>2, <2>1 DEF TokenRows
<1> HIDE DEF row, c
<1>4. \A r \in auth_tokens : r.id # row.id /\ r.hash # row.hash
  BY <1>0, <1>1, <1>2, <1>3 DEF Numbered
<1>5. UniqueIds(auth_tokens') /\ UniqueHashes(auth_tokens') /\ auth_tokens' \in SUBSET TokenRows
  BY <1>0, <1>1, <1>3, <1>4 DEF UniqueIds, UniqueHashes
<1>6. AccountsInv'
  <2>1. Numbered(auth_tokens', writes') /\ Numbered(users', writes')
    BY <1>0, <1>1, <1>2, <1>3 DEF Numbered
  <2>2. IsFiniteSet(auth_tokens')
    BY <1>0, <1>1, FS_AddElement
  <2>3. \A r \in auth_tokens' : r.user \in IdsOf(users)
    BY <1>1, <1>3 DEF AccountsInv, TokensOk
  <2> QED
    BY <1>1, <1>5, <2>1, <2>2, <2>3 DEF AccountsInv, UsersOk, TokensOk
<1>7. DictTokens' = Memory!Put(DictTokens, New, row)
  <2>1. IdsOf(auth_tokens') = IdsOf(auth_tokens) \cup {row.id} /\ row \in auth_tokens'
    BY <1>1 DEF IdsOf
  <2>2. \A r \in auth_tokens' : r.id # row.id => r \in auth_tokens
    BY <1>1
  <2>3. Puts(auth_tokens, auth_tokens', row)
    BY <2>1, <2>2 DEF Puts
  <2> QED
    BY <1>0, <1>3, <1>5, <2>3, SelfPut DEF DictTokens
<1>8. DictHashes' = Memory!Put(DictHashes, h, New)
  BY <1>0, <1>1, <1>3, <1>5, HashPut DEF DictHashes
<1>9. h \notin DOMAIN DictHashes
  <2>1. DOMAIN DictHashes = {r.hash : r \in auth_tokens}
    BY <1>0, HashesEntries DEF DictHashes
  <2> QED
    BY <1>1, <2>1
<1>10. u \in DOMAIN DictUsers
  BY <1>0, <1>1, UsersEntries DEF DictUsers
<1>11. UNCHANGED <<DictUsers, DictEmails>> /\ UNCHANGED Memory!books /\ UNCHANGED Memory!market
  BY <1>1, UsersSame, BooksSame, MarketSame
<1>12. Memory!Write(c, row)
  BY <1>1, WriteMatches
<1>13. New = Memory!New
  BY DEF New, Memory!New
<1> QED
  BY <1>6, <1>7, <1>8, <1>9, <1>10, <1>11, <1>12, <1>13 DEF Memory!CreateAuthToken, row, c

(* get_auth_token.                                                           *)
LEMMA GetAuthTokenMatches ==
  ASSUME AccountsInv, NEW h, NEW k, GetAuthToken(h, k)
  PROVE  Memory!GetAuthToken(h, k)
<1> DEFINE found == {r \in auth_tokens : r.hash = h /\ r.kind = k}
           there == Memory!Lookup(DictTokens, Memory!Lookup(DictHashes, h))
           c == <<"get_auth_token", h, k>>
<1>0. /\ auth_tokens \in SUBSET TokenRows /\ UniqueIds(auth_tokens) /\ UniqueHashes(auth_tokens)
  BY DEF AccountsInv, TokensOk
<1>1. Memory!Read(c, OneOrNone(found))
  BY ReadMatches DEF GetAuthToken
<1>2. DOMAIN DictHashes = {r.hash : r \in auth_tokens}
  BY <1>0, HashesEntries DEF DictHashes
<1>3. CASE \A r \in auth_tokens : r.hash # h
  <2>1. found = {} /\ h \notin DOMAIN DictHashes
    BY <1>2, <1>3
  <2>2. None \notin DOMAIN DictTokens
    <3>1. DOMAIN DictTokens = IdsOf(auth_tokens)
      BY <1>0, RowsEntries DEF DictTokens
    <3>2. \A r \in auth_tokens : r.id \in Int
      BY <1>0 DEF TokenRows
    <3> QED
      BY <3>1, <3>2, RepositoryInputs DEF IdsOf
  <2>3. there = None /\ OneOrNone(found) = None
    BY <2>1, <2>2 DEF Memory!Lookup, OneOrNone
  <2> QED
    BY <1>1, <2>3 DEF Memory!GetAuthToken
<1>4. CASE \E r \in auth_tokens : r.hash = h
  <2>1. PICK r \in auth_tokens : r.hash = h
    BY <1>4
  <2>2. there = r
    <3>1. h \in DOMAIN DictHashes /\ DictHashes[h] = r.id
      BY <1>0, <2>1, HashesEntries DEF DictHashes
    <3>2. r.id \in DOMAIN DictTokens /\ DictTokens[r.id] = r
      BY <1>0, RowsEntries DEF DictTokens
    <3> QED
      BY <3>1, <3>2 DEF Memory!Lookup
  <2>3. \A s \in auth_tokens : s.hash = h => s = r
    BY <1>0, <2>1 DEF UniqueHashes
  <2>4. found = IF r.kind = k THEN {r} ELSE {}
    BY <2>1, <2>3
  <2>5. OneOrNone(found) = IF there = None \/ there.kind # k THEN None ELSE there
    BY <2>2, <2>4, TheOnly DEF OneOrNone
  <2> QED
    BY <1>1, <2>5 DEF Memory!GetAuthToken
<1> QED
  BY <1>3, <1>4

(* A change of some tokens, by any of the three calls.                       *)
TokensBecome(M, ch) ==
  /\ M \subseteq auth_tokens
  /\ \A r \in M : /\ ch[r] \in TokenRows /\ ch[r].id = r.id
                  /\ ch[r].hash = r.hash /\ ch[r].user = r.user
  /\ auth_tokens' = (auth_tokens \ M) \cup {ch[r] : r \in M}
  /\ users' = users /\ writes' = writes + 1

(* Some tokens changed, in place.                                            *)
LEMMA TokensChanged ==
  ASSUME AccountsInv, WritesOk, NEW M, NEW ch, TokensBecome(M, ch)
  PROVE  /\ AccountsInv' /\ DictHashes' = DictHashes
         /\ DictTokens' = [i \in DOMAIN DictTokens |->
                             IF DictTokens[i] \in M THEN ch[DictTokens[i]] ELSE DictTokens[i]]
<1> DEFINE f == [r \in auth_tokens |-> IF r \in M THEN ch[r] ELSE r]
           T == auth_tokens'
<1>0. /\ auth_tokens \in SUBSET TokenRows /\ UniqueIds(auth_tokens) /\ UniqueHashes(auth_tokens)
      /\ Numbered(auth_tokens, writes) /\ IsFiniteSet(auth_tokens)
      /\ \A r \in auth_tokens : r.user \in IdsOf(users)
  BY DEF AccountsInv, TokensOk
<1>1. \A r \in auth_tokens : /\ f[r] \in TokenRows /\ f[r].id = r.id /\ f[r].hash = r.hash
                             /\ f[r].user = r.user
  BY <1>0 DEF TokensBecome
<1>2. T = {f[r] : r \in auth_tokens}
  <2>1. ASSUME NEW s \in T
        PROVE  \E r \in auth_tokens : s = f[r]
    BY DEF TokensBecome
  <2>2. ASSUME NEW r \in auth_tokens
        PROVE  f[r] \in T
    BY DEF TokensBecome
  <2> HIDE DEF f
  <2> QED
    BY <2>1, <2>2
<1>a. \A r \in auth_tokens : f[r] = IF r \in M THEN ch[r] ELSE r
  OBVIOUS
<1> HIDE DEF f, T
<1>3. T \in SUBSET TokenRows /\ UniqueIds(T) /\ UniqueHashes(T) /\ Numbered(T, writes)
  BY <1>0, <1>1, <1>2 DEF UniqueIds, UniqueHashes, Numbered
<1>4. IsFiniteSet(T)
  BY <1>0, <1>2, ImageFinite
<1>5. \A r \in T : r.user \in IdsOf(users)
  BY <1>0, <1>1, <1>2
<1>6. AccountsInv'
  <2>1. users' = users /\ writes' = writes + 1
    BY DEF TokensBecome
  <2>2. \A i \in 1 .. writes : i \in 1 .. writes'
    BY <2>1 DEF WritesOk
  <2>3. Numbered(T, writes') /\ Numbered(users, writes')
    BY <1>3, <2>2 DEF Numbered, AccountsInv, UsersOk
  <2> QED
    BY <1>3, <1>4, <1>5, <2>1, <2>3 DEF AccountsInv, UsersOk, TokensOk, T
<1>7. DictHashes' = DictHashes
  <2> DEFINE h == ByHash(auth_tokens)
             k == ByHash(T)
  <2>1. DOMAIN h = {r.hash : r \in auth_tokens} /\ IsDict(h) /\ \A r \in auth_tokens : h[r.hash] = r.id
    BY <1>0, HashesEntries
  <2>2. DOMAIN k = {r.hash : r \in T} /\ IsDict(k) /\ \A r \in T : k[r.hash] = r.id
    BY <1>3, HashesEntries
  <2> HIDE DEF h, k
  <2>3. DOMAIN k = DOMAIN h
    BY <1>1, <1>2, <2>1, <2>2
  <2>4. ASSUME NEW x \in DOMAIN h
        PROVE  k[x] = h[x]
    <3>1. PICK r \in auth_tokens : r.hash = x
      BY <2>1
    <3>2. f[r] \in T /\ f[r].hash = x /\ f[r].id = r.id
      BY <1>1, <1>2, <3>1
    <3> QED
      BY <2>1, <2>2, <3>1, <3>2
  <2>5. h = k
    BY <2>1, <2>2, <2>3, <2>4 DEF IsDict
  <2> QED
    BY <2>5 DEF DictHashes, h, k, T
<1>8. DictTokens' = [i \in DOMAIN DictTokens |->
                       IF DictTokens[i] \in M THEN ch[DictTokens[i]] ELSE DictTokens[i]]
  <2> DEFINE h == ById(auth_tokens)
             k == ById(T)
  <2>1. DOMAIN h = IdsOf(auth_tokens) /\ IsDict(h) /\ \A r \in auth_tokens : h[r.id] = r
    BY <1>0, RowsEntries
  <2>2. DOMAIN k = IdsOf(T) /\ IsDict(k) /\ \A r \in T : k[r.id] = r
    BY <1>3, RowsEntries
  <2> HIDE DEF h, k
  <2>3. DOMAIN k = DOMAIN h
    BY <1>1, <1>2, <2>1, <2>2, SameIds
  <2>4. ASSUME NEW i \in DOMAIN h
        PROVE  k[i] = IF h[i] \in M THEN ch[h[i]] ELSE h[i]
    <3>1. PICK r \in auth_tokens : r.id = i
      BY <2>1 DEF IdsOf
    <3>2. f[r] \in T /\ f[r].id = i
      BY <1>1, <1>2, <3>1
    <3>3. k[i] = f[r] /\ h[i] = r
      BY <2>1, <2>2, <3>1, <3>2
    <3> QED
      BY <1>a, <3>3
  <2>5. k = [i \in DOMAIN h |-> IF h[i] \in M THEN ch[h[i]] ELSE h[i]]
    BY <2>2, <2>3, <2>4 DEF IsDict
  <2> QED
    BY <2>5 DEF DictTokens, h, k, T
<1> QED
  BY <1>6, <1>7, <1>8

(* consume_auth_token and revoke_auth_token.                                 *)
LEMMA ConsumeAuthTokenMatches ==
  ASSUME AccountsInv, WritesOk, NEW i, ConsumeAuthToken(i)
  PROVE  Memory!ConsumeAuthToken(i) /\ (UNCHANGED accounts \/ AccountsInv')
<1> DEFINE M == {r \in auth_tokens : r.id = i}
           c == <<"consume_auth_token", i>>
<1>0. auth_tokens \in SUBSET TokenRows /\ UniqueIds(auth_tokens)
  BY DEF AccountsInv, TokensOk
<1>1. CASE M = {} /\ Refuse(c, "KeyError")
  <2>1. i \notin DOMAIN DictTokens
    BY <1>0, <1>1, RowsEntries DEF DictTokens
  <2>2. Memory!Refuse(c, Memory!Raised("KeyError"))
    BY <1>1, RefusalMatches
  <2>3. UNCHANGED accounts
    BY <1>1 DEF Refuse, Read
  <2> QED
    BY <2>1, <2>2, <2>3 DEF Memory!ConsumeAuthToken, Memory!ChangeToken
<1>2. CASE /\ M # {} /\ Write(c, [The(M) EXCEPT !.consumed = TRUE])
           /\ auth_tokens' = (auth_tokens \ M) \cup {[r EXCEPT !.consumed = TRUE] : r \in M}
           /\ UNCHANGED <<users, books, market>>
  <2>1. PICK x \in auth_tokens : x.id = i
    BY <1>2
  <2>2. M = {x} /\ The(M) = x
    BY <1>0, <2>1, TheWithId
  <2>3. i \in DOMAIN DictTokens /\ DictTokens[i] = x
    BY <1>0, <2>1, RowsEntries DEF DictTokens
  <2>4. TokensBecome(M, [r \in M |-> [r EXCEPT !.consumed = TRUE]])
    BY <1>0, <1>2 DEF TokensBecome, TokenRows, Write
  <2> DEFINE ch == [r \in M |-> [r EXCEPT !.consumed = TRUE]]
  <2>5. ch[x] = [DictTokens[i] EXCEPT !.consumed = TRUE]
    BY <2>2, <2>3
  <2>6. TokensBecome(M, ch)
    BY <2>4
  <2> HIDE DEF ch
  <2>7. /\ AccountsInv' /\ DictHashes' = DictHashes
        /\ DictTokens' = [k \in DOMAIN DictTokens |->
                            IF DictTokens[k] \in M THEN ch[DictTokens[k]] ELSE DictTokens[k]]
    BY <2>6, TokensChanged
  <2>8. DictTokens' = Memory!Put(DictTokens, i, ch[x])
    <3>1. \A k \in DOMAIN DictTokens : DictTokens[k] \in M <=> k = i
      BY <1>0, <2>2, <2>3, RowsEntries DEF DictTokens
    <3>2. DOMAIN DictTokens \cup {i} = DOMAIN DictTokens
      BY <2>3
    <3> QED
      BY <2>3, <2>7, <3>1, <3>2 DEF Memory!Put
  <2>9. UNCHANGED <<DictUsers, DictEmails>> /\ UNCHANGED Memory!books /\ UNCHANGED Memory!market
    BY <1>2, UsersSame, BooksSame, MarketSame
  <2>10. Memory!Write(c, ch[x])
    BY <1>2, <2>2, <2>3, <2>5, WriteMatches
  <2> QED
    BY <2>3, <2>5, <2>7, <2>8, <2>9, <2>10 DEF Memory!ConsumeAuthToken, Memory!ChangeToken
<1> QED
  BY <1>1, <1>2 DEF ConsumeAuthToken, UpdateAuthToken, UpdateAuthTokens

(* revoke_auth_token.                                                        *)
LEMMA RevokeAuthTokenMatches ==
  ASSUME AccountsInv, WritesOk, NEW i, RevokeAuthToken(i)
  PROVE  Memory!RevokeAuthToken(i) /\ (UNCHANGED accounts \/ AccountsInv')
<1> DEFINE M == {r \in auth_tokens : r.id = i}
           c == <<"revoke_auth_token", i>>
<1>0. auth_tokens \in SUBSET TokenRows /\ UniqueIds(auth_tokens)
  BY DEF AccountsInv, TokensOk
<1>1. CASE M = {} /\ Refuse(c, "KeyError")
  <2>1. i \notin DOMAIN DictTokens
    BY <1>0, <1>1, RowsEntries DEF DictTokens
  <2>2. Memory!Refuse(c, Memory!Raised("KeyError"))
    BY <1>1, RefusalMatches
  <2>3. UNCHANGED accounts
    BY <1>1 DEF Refuse, Read
  <2> QED
    BY <2>1, <2>2, <2>3 DEF Memory!RevokeAuthToken, Memory!ChangeToken
<1>2. CASE /\ M # {} /\ Write(c, [The(M) EXCEPT !.revoked = TRUE])
           /\ auth_tokens' = (auth_tokens \ M) \cup {[r EXCEPT !.revoked = TRUE] : r \in M}
           /\ UNCHANGED <<users, books, market>>
  <2>1. PICK x \in auth_tokens : x.id = i
    BY <1>2
  <2>2. M = {x} /\ The(M) = x
    BY <1>0, <2>1, TheWithId
  <2>3. i \in DOMAIN DictTokens /\ DictTokens[i] = x
    BY <1>0, <2>1, RowsEntries DEF DictTokens
  <2>4. TokensBecome(M, [r \in M |-> [r EXCEPT !.revoked = TRUE]])
    BY <1>0, <1>2 DEF TokensBecome, TokenRows, Write
  <2> DEFINE ch == [r \in M |-> [r EXCEPT !.revoked = TRUE]]
  <2>5. ch[x] = [DictTokens[i] EXCEPT !.revoked = TRUE]
    BY <2>2, <2>3
  <2>6. TokensBecome(M, ch)
    BY <2>4
  <2> HIDE DEF ch
  <2>7. /\ AccountsInv' /\ DictHashes' = DictHashes
        /\ DictTokens' = [k \in DOMAIN DictTokens |->
                            IF DictTokens[k] \in M THEN ch[DictTokens[k]] ELSE DictTokens[k]]
    BY <2>6, TokensChanged
  <2>8. DictTokens' = Memory!Put(DictTokens, i, ch[x])
    <3>1. \A k \in DOMAIN DictTokens : DictTokens[k] \in M <=> k = i
      BY <1>0, <2>2, <2>3, RowsEntries DEF DictTokens
    <3>2. DOMAIN DictTokens \cup {i} = DOMAIN DictTokens
      BY <2>3
    <3> QED
      BY <2>3, <2>7, <3>1, <3>2 DEF Memory!Put
  <2>9. UNCHANGED <<DictUsers, DictEmails>> /\ UNCHANGED Memory!books /\ UNCHANGED Memory!market
    BY <1>2, UsersSame, BooksSame, MarketSame
  <2>10. Memory!Write(c, ch[x])
    BY <1>2, <2>2, <2>3, <2>5, WriteMatches
  <2> QED
    BY <2>3, <2>5, <2>7, <2>8, <2>9, <2>10 DEF Memory!RevokeAuthToken, Memory!ChangeToken
<1> QED
  BY <1>1, <1>2 DEF RevokeAuthToken, UpdateAuthToken, UpdateAuthTokens

(* revoke_user_tokens.                                                       *)
LEMMA RevokeUserTokensMatches ==
  ASSUME AccountsInv, WritesOk, NEW x \in users, NEW kind, RevokeUserTokens(x.id, kind)
  PROVE  Memory!RevokeUserTokens(x.id, kind) /\ AccountsInv'
<1> DEFINE live == {r \in auth_tokens : r.user = x.id /\ ~r.revoked}
           M == IF kind = None THEN live ELSE {r \in live : r.kind = kind}
           D == DictTokens
           ids == {i \in DOMAIN D : /\ D[i].user = x.id /\ ~D[i].revoked
                                    /\ kind \in {None, D[i].kind}}
           c == <<"revoke_user_tokens", x.id, kind>>
           ch == [r \in M |-> [r EXCEPT !.revoked = TRUE]]
<1>0. /\ auth_tokens \in SUBSET TokenRows /\ UniqueIds(auth_tokens) /\ IsFiniteSet(auth_tokens)
      /\ UniqueIds(users)
  BY DEF AccountsInv, TokensOk, UsersOk
<1>1. /\ Write(c, Cardinality(M))
      /\ auth_tokens' = (auth_tokens \ M) \cup {[r EXCEPT !.revoked = TRUE] : r \in M}
      /\ UNCHANGED <<users, books, market>>
  BY DEF RevokeUserTokens, UpdateAuthTokens
<1>2. M \subseteq auth_tokens /\ \A r \in auth_tokens :
        r \in M <=> r.user = x.id /\ ~r.revoked /\ kind \in {None, r.kind}
  OBVIOUS
<1> HIDE DEF M
<1>3. TokensBecome(M, ch)
  <2>1. ASSUME NEW r \in M
        PROVE  /\ ch[r] \in TokenRows /\ ch[r].id = r.id
               /\ ch[r].hash = r.hash /\ ch[r].user = r.user
    BY <1>0, <1>2 DEF TokenRows
  <2>2. auth_tokens' = (auth_tokens \ M) \cup {ch[r] : r \in M}
    BY <1>1
  <2> HIDE DEF ch
  <2> QED
    BY <1>1, <1>2, <2>1, <2>2 DEF TokensBecome, Write
<1>a. \A r \in M : ch[r] = [r EXCEPT !.revoked = TRUE]
  OBVIOUS
<1> HIDE DEF ch
<1>4. /\ AccountsInv' /\ DictHashes' = DictHashes
      /\ D' = [i \in DOMAIN D |-> IF D[i] \in M THEN ch[D[i]] ELSE D[i]]
  BY <1>3, TokensChanged
<1>5. DOMAIN D = IdsOf(auth_tokens) /\ \A r \in auth_tokens : D[r.id] = r
  BY <1>0, RowsEntries DEF DictTokens
<1>b. \A i \in DOMAIN D : D[i] \in auth_tokens /\ D[i].id = i
  BY <1>5 DEF IdsOf
<1>6. \A i \in DOMAIN D : i \in ids <=> D[i] \in M
  BY <1>2, <1>b
<1>7. D' = [i \in DOMAIN D |-> IF i \in ids THEN [D[i] EXCEPT !.revoked = TRUE] ELSE D[i]]
  BY <1>a, <1>4, <1>6
<1>8. Cardinality(ids) = Cardinality(M)
  <2>1. ids = IdsOf(M)
    <3>1. ASSUME NEW i \in ids
          PROVE  i \in IdsOf(M)
      BY <1>6, <1>b DEF IdsOf
    <3>2. ASSUME NEW i \in IdsOf(M)
          PROVE  i \in ids
      <4>1. PICK r \in M : r.id = i
        BY DEF IdsOf
      <4>2. r \in auth_tokens /\ i \in DOMAIN D /\ D[i] = r
        BY <1>2, <1>5, <4>1 DEF IdsOf
      <4> QED
        BY <1>6, <4>1, <4>2
    <3> QED
      BY <3>1, <3>2
  <2>2. IsFiniteSet(M)
    BY <1>0, <1>2, FS_Subset
  <2>3. UniqueIds(M)
    BY <1>0, <1>2 DEF UniqueIds
  <2> QED
    BY <2>1, <2>2, <2>3, AsManyIds
<1>9. Memory!Write(c, Cardinality(ids))
  BY <1>1, <1>8, WriteMatches
<1>10. x.id \in DOMAIN DictUsers
  BY <1>0, UsersEntries DEF DictUsers
<1>11. UNCHANGED <<DictUsers, DictEmails>> /\ UNCHANGED Memory!books /\ UNCHANGED Memory!market
  BY <1>1, UsersSame, BooksSame, MarketSame
<1> QED
  BY <1>4, <1>7, <1>9, <1>10, <1>11, SameLibrary DEF Memory!RevokeUserTokens

-----------------------------------------------------------------------------
(* Market data: a quote per ticker, a snapshot per id and per hash.          *)
UniqueTickers(rows) == \A r, s \in rows : r.ticker = s.ticker => r = s
QuotesOk == UniqueTickers(market_quotes)
OptionsOk ==
  /\ option_chain_snapshots \subseteq Options /\ IsFiniteSet(option_chain_snapshots)
  /\ UniqueIds(option_chain_snapshots) /\ UniqueHashes(option_chain_snapshots)
MarketInv == QuotesOk /\ OptionsOk

LEMMA QuotesSame ==
  ASSUME UNCHANGED market_quotes
  PROVE  UNCHANGED DictQuotes
  BY DEF DictQuotes

(* Snapshots left alone.                                                     *)
LEMMA OptionsSame ==
  ASSUME UNCHANGED option_chain_snapshots
  PROVE  UNCHANGED DictOptions
  BY DEF DictOptions

(* add_option_chain_snapshot.                                                *)
LEMMA AddOptionMatches ==
  ASSUME MarketInv, NEW o \in Options, AddOptionChainSnapshot(o)
  PROVE  Memory!AddOptionChainSnapshot(o) /\ (UNCHANGED market \/ MarketInv')
<1> DEFINE D == DictOptions
           R == option_chain_snapshots
           same == {r \in R : r.hash = o.hash}
           ids == {i \in DOMAIN D : D[i].hash = o.hash}
           c == <<"add_option_chain_snapshot", o>>
<1>0. R \in SUBSET Options /\ IsFiniteSet(R) /\ UniqueIds(R) /\ UniqueHashes(R)
  BY DEF MarketInv, OptionsOk
<1>1. /\ DOMAIN D = IdsOf(R) /\ IsDict(D) /\ \A r \in R : r.id \in DOMAIN D /\ D[r.id] = r
      /\ \A i \in DOMAIN D : D[i] \in R /\ D[i].id = i
  BY <1>0, RowsEntries DEF DictOptions
<1> HIDE DEF D
<1>2. CASE same # {} /\ Read(c, The(same))
  <2>1. PICK x \in R : x.hash = o.hash
    BY <1>2
  <2>2. same = {x}
    BY <1>0, <2>1 DEF UniqueHashes
  <2>3. ids = {x.id}
    BY <1>0, <1>1, <2>1 DEF UniqueHashes
  <2>4. D[CHOOSE i \in ids : TRUE] = The(same) /\ ids # {}
    BY <1>1, <2>2, <2>3, TheOnly
  <2>5. Memory!Read(c, D[CHOOSE i \in ids : TRUE])
    BY <1>2, <2>4, ReadMatches
  <2>6. UNCHANGED market
    BY <1>2 DEF Read
  <2> QED
    BY <2>4, <2>5, <2>6 DEF Memory!AddOptionChainSnapshot, D
<1>3. CASE /\ same = {} /\ UniqueIds(R \cup {o}) /\ Write(c, o) /\ R' = R \cup {o}
           /\ UNCHANGED <<accounts, books, market_quotes>>
  <2>1. ids = {}
    BY <1>1, <1>3
  <2>2. o \notin R /\ \A r \in R : r.hash # o.hash
    BY <1>3
  <2>3. o.id \notin DOMAIN D
    BY <1>1, <1>3, <2>2 DEF IdsOf, UniqueIds
  <2>4. UniqueHashes(R')
    BY <1>0, <1>3, <2>2 DEF UniqueHashes
  <2>5. MarketInv'
    BY <1>0, <1>3, <2>4, FS_AddElement DEF MarketInv, QuotesOk, OptionsOk
  <2>6. Puts(R, R', o)
    BY <1>3 DEF Puts, IdsOf
  <2>7. ById(R') = Memory!Put(ById(R), o.id, o)
    BY <1>0, <1>3, <2>6, SelfPut
  <2>8. DictOptions' = Memory!Put(DictOptions, o.id, o)
    BY <2>7 DEF DictOptions
  <2>9. UNCHANGED DictQuotes /\ UNCHANGED Memory!accounts /\ UNCHANGED Memory!books
    BY <1>3, AccountsSame, BooksSame, QuotesSame
  <2>10. Memory!Write(c, o)
    BY <1>3, WriteMatches
  <2> QED
    BY <2>1, <2>3, <2>5, <2>8, <2>9, <2>10 DEF Memory!AddOptionChainSnapshot, D
<1> QED
  BY <1>2, <1>3 DEF AddOptionChainSnapshot

(* list_option_chain_snapshots.                                              *)
LEMMA SameFetched ==
  ASSUME NEW S
  PROVE  Memory!Sorted(S, Memory!Fetched) = OrderBy(S, Fetched)
  BY SameLibrary DEF Memory!Sorted, OrderBy, Memory!Fetched, Fetched

(* list_option_chain_snapshots.                                              *)
LEMMA ListOptionsMatches ==
  ASSUME MarketInv, NEW t, NEW e, NEW s, ListOptionChainSnapshots(t, e, s)
  PROVE  Memory!ListOptionChainSnapshots(t, e, s)
<1> DEFINE D == DictOptions
           rows == {r \in option_chain_snapshots : /\ r.ticker = Normal[t]
                                                   /\ e = None \/ r.expiry = e
                                                   /\ Fresh(r, s)}
           found == {i \in DOMAIN D : /\ D[i].ticker = Normal[t]
                                      /\ e \in {None, D[i].expiry}
                                      /\ Memory!NotBefore(D[i], s)}
           c == <<"list_option_chain_snapshots", t, e, s>>
<1>1. /\ \A r \in option_chain_snapshots : r.id \in DOMAIN D /\ D[r.id] = r
      /\ \A i \in DOMAIN D : D[i] \in option_chain_snapshots /\ D[i].id = i
  BY RowsEntries DEF DictOptions, MarketInv, OptionsOk
<1>2. Memory!Read(c, OrderBy(rows, Fetched))
  BY ReadMatches DEF ListOptionChainSnapshots
<1> HIDE DEF D
<1>3. {D[i] : i \in found} = rows
  <2>1. \A r : Memory!NotBefore(r, s) <=> Fresh(r, s)
    BY DEF Memory!NotBefore, Fresh
  <2>2. ASSUME NEW i \in found
        PROVE  D[i] \in rows
    BY <1>1, <2>1
  <2>3. ASSUME NEW r \in rows
        PROVE  r.id \in found /\ D[r.id] = r
    BY <1>1, <2>1
  <2> HIDE DEF found, rows
  <2> QED
    BY <2>2, <2>3
<1>4. Memory!Sorted({D[i] : i \in found}, Memory!Fetched) = OrderBy(rows, Fetched)
  BY <1>3, SameFetched
<1>5. Memory!Read(c, Memory!Sorted({D[i] : i \in found}, Memory!Fetched))
  BY <1>2, <1>4
<1> QED
  BY <1>5 DEF Memory!ListOptionChainSnapshots, D

(* purge_option_chain_snapshots.                                             *)
LEMMA PurgeOptionsMatches ==
  ASSUME MarketInv, NEW b \in Times, PurgeOptionChainSnapshots(b)
  PROVE  Memory!PurgeOptionChainSnapshots(b) /\ MarketInv'
<1> DEFINE D == DictOptions
           R == option_chain_snapshots
           gone == {r \in R : r.fetched < b}
           kept == {i \in DOMAIN D : D[i].fetched >= b}
           c == <<"purge_option_chain_snapshots", b>>
<1>0. R \in SUBSET Options /\ IsFiniteSet(R) /\ UniqueIds(R) /\ UniqueHashes(R)
  BY DEF MarketInv, OptionsOk
<1>1. /\ DOMAIN D = IdsOf(R) /\ IsDict(D) /\ \A r \in R : r.id \in DOMAIN D /\ D[r.id] = r
      /\ \A i \in DOMAIN D : D[i] \in R /\ D[i].id = i
  BY <1>0, RowsEntries DEF DictOptions
<1>2. /\ Write(c, Cardinality(gone)) /\ R' = R \ gone
      /\ UNCHANGED <<accounts, books, market_quotes>>
  BY DEF PurgeOptionChainSnapshots
<1>3. \A r \in R : r \in gone <=> ~(r.fetched >= b)
  <2>1. \A r \in R : r.fetched \in Int
    BY <1>0, RepositoryInputs
  <2>2. b \in Int
    BY RepositoryInputs
  <2> QED
    BY <2>1, <2>2
<1> HIDE DEF D
<1>4. R' \in SUBSET Options /\ IsFiniteSet(R') /\ UniqueIds(R') /\ UniqueHashes(R')
  <2>1. R' \subseteq R
    BY <1>2
  <2>2. IsFiniteSet(R')
    BY <1>0, <2>1, FS_Subset
  <2> QED
    BY <1>0, <2>1, <2>2 DEF UniqueIds, UniqueHashes
<1>5. MarketInv'
  BY <1>2, <1>4 DEF MarketInv, QuotesOk, OptionsOk
<1>6. kept = IdsOf(R')
  <2>1. ASSUME NEW i \in kept
        PROVE  i \in IdsOf(R')
    <3>1. D[i] \in R /\ D[i].id = i /\ D[i] \notin gone
      BY <1>1, <1>3
    <3> QED
      BY <1>2, <3>1 DEF IdsOf
  <2>2. ASSUME NEW i \in IdsOf(R')
        PROVE  i \in kept
    <3>1. PICK r \in R' : r.id = i
      BY DEF IdsOf
    <3>2. r \in R /\ r \notin gone
      BY <1>2, <3>1
    <3> QED
      BY <1>1, <1>3, <3>1, <3>2
  <2> QED
    BY <2>1, <2>2
<1>7. D' = [i \in kept |-> D[i]]
  <2>1. /\ DOMAIN D' = IdsOf(R') /\ IsDict(D') /\ \A i \in DOMAIN D' : D'[i] \in R' /\ D'[i].id = i
    BY <1>4, RowsEntries DEF DictOptions, D
  <2>2. ASSUME NEW i \in kept
        PROVE  D'[i] = D[i]
    <3>1. D'[i] \in R /\ D'[i].id = i
      BY <1>2, <1>6, <2>1
    <3> QED
      BY <1>1, <3>1
  <2> HIDE DEF kept
  <2> QED
    BY <1>6, <2>1, <2>2 DEF IsDict
<1>8. Cardinality(gone) = Cardinality(DOMAIN D) - Cardinality(kept)
  <2>1. Cardinality(DOMAIN D) = Cardinality(R) /\ Cardinality(kept) = Cardinality(R')
    BY <1>0, <1>1, <1>4, <1>6, AsManyIds
  <2>2. IsFiniteSet(gone) /\ R \cap gone = gone
    BY <1>0, FS_Subset
  <2>3. Cardinality(R \ gone) = Cardinality(R) - Cardinality(gone)
    BY <1>0, <2>2, FS_Difference
  <2>4. Cardinality(R) \in Nat /\ Cardinality(gone) \in Nat
    BY <1>0, <2>2, FS_CardinalityType
  <2> QED
    BY <1>2, <2>1, <2>3, <2>4
<1>9. Memory!Write(c, Cardinality(DOMAIN D) - Cardinality(kept))
  BY <1>2, <1>8, WriteMatches
<1>10. UNCHANGED DictQuotes /\ UNCHANGED Memory!accounts /\ UNCHANGED Memory!books
  BY <1>2, AccountsSame, BooksSame, QuotesSame
<1> QED
  BY <1>5, <1>7, <1>9, <1>10, SameLibrary DEF Memory!PurgeOptionChainSnapshots, D
(* The dictionary of quotes.                                                 *)
LEMMA TickerEntries ==
  ASSUME NEW R, UniqueTickers(R)
  PROVE  /\ DOMAIN ByTicker(R) = {r.ticker : r \in R} /\ IsDict(ByTicker(R))
         /\ \A r \in R : r.ticker \in DOMAIN ByTicker(R) /\ ByTicker(R)[r.ticker] = r
         /\ \A t \in DOMAIN ByTicker(R) : ByTicker(R)[t] \in R /\ ByTicker(R)[t].ticker = t
<1>1. ASSUME NEW r \in R
      PROVE  The({s \in R : s.ticker = r.ticker}) = r
  <2>1. {s \in R : s.ticker = r.ticker} = {r}
    BY DEF UniqueTickers
  <2> QED
    BY <2>1, TheOnly
<1>2. /\ DOMAIN ByTicker(R) = {r.ticker : r \in R} /\ IsDict(ByTicker(R))
      /\ \A r \in R : r.ticker \in DOMAIN ByTicker(R) /\ ByTicker(R)[r.ticker] = r
  BY <1>1 DEF ByTicker, IsDict
<1>3. ASSUME NEW t \in DOMAIN ByTicker(R)
      PROVE  ByTicker(R)[t] \in R /\ ByTicker(R)[t].ticker = t
  <2>1. PICK r \in R : r.ticker = t
    BY <1>2
  <2> QED
    BY <1>2, <2>1
<1> QED
  BY <1>2, <1>3

(* One quote upserted.                                                       *)
Quote(q) == q = [ticker |-> q.ticker, price |-> q.price, fetched |-> q.fetched]
LEMMA UpsertPuts ==
  ASSUME NEW R, UniqueTickers(R), NEW q, Quote(q)
  PROVE  /\ UniqueTickers(Upserted(R, q))
         /\ ByTicker(Upserted(R, q))
              = Memory!Put(ByTicker(R), Normal[q.ticker], Memory!Stored(q))
<1> DEFINE x == Memory!Stored(q)
           t == Normal[q.ticker]
           T == Upserted(R, q)
           f == ByTicker(R)
           g == ByTicker(T)
<1>1. x = [q EXCEPT !.ticker = Normal[@]] /\ x.ticker = t
  <2>1. "ticker" \in DOMAIN q
    BY DEF Quote
  <2> QED
    BY <2>1 DEF Memory!Stored
<1>2. T = {r \in R : r.ticker # t} \cup {x}
  BY <1>1 DEF Upserted
<1> HIDE DEF x, T
<1>3. UniqueTickers(T)
  BY <1>1, <1>2 DEF UniqueTickers
<1>4. DOMAIN f = {r.ticker : r \in R} /\ \A i \in DOMAIN f : f[i] \in R /\ f[i].ticker = i
  BY TickerEntries
<1>5. /\ DOMAIN g = {r.ticker : r \in T} /\ IsDict(g) /\ \A r \in T : g[r.ticker] = r
  BY <1>3, TickerEntries
<1> HIDE DEF f, g
<1>6. DOMAIN g = DOMAIN f \cup {t}
  <2>1. ASSUME NEW i \in DOMAIN g
        PROVE  i \in DOMAIN f \cup {t}
    BY <1>1, <1>2, <1>4, <1>5
  <2>2. ASSUME NEW i \in DOMAIN f, i # t
        PROVE  i \in DOMAIN g
    BY <1>2, <1>4, <1>5, <2>2
  <2>3. t \in DOMAIN g
    BY <1>1, <1>2, <1>5
  <2> QED
    BY <2>1, <2>2, <2>3
<1>7. g[t] = x
  BY <1>1, <1>2, <1>5
<1>8. \A i \in DOMAIN f : i # t => g[i] = f[i]
  BY <1>2, <1>4, <1>5
<1>9. g = Memory!Put(f, t, x)
  BY <1>5, <1>6, <1>7, <1>8, PutIs
<1> QED
  BY <1>3, <1>9 DEF f, g, x, T

(* upsert_market_quotes: quote after quote, in the rows as in the dictionary.*)
RowsLoop(list, rows, n, k) ==
  k = [r \in SUBSET (1 .. n) |-> IF r = {} THEN rows ELSE Upserted(k[r \ {Max(r)}], list[Max(r)])]
DictLoop(list, f, n, k) ==
  k = [r \in SUBSET (1 .. n) |-> IF r = {} THEN f ELSE
         Memory!Put(k[r \ {Max(r)}], Normal[list[Max(r)].ticker], Memory!Stored(list[Max(r)]))]

(* Rows after a list of quotes are determined.                               *)
LEMMA RowsLoopsAgree ==
  ASSUME NEW n \in Nat, NEW list, NEW rows, NEW g, NEW k,
         RowsLoop(list, rows, n, g), RowsLoop(list, rows, n, k)
  PROVE  g[1 .. n] = k[1 .. n]
<1> DEFINE S == 1 .. n
           P == {s \in SUBSET S : g[s] = k[s]}
<1>1. IsFiniteSet(S) /\ {} \in SUBSET S /\ P \in SUBSET SUBSET S
  BY FS_Interval
<1>2. {} \in P
  BY <1>1 DEF RowsLoop
<1>3. \A s \in SUBSET S : s # {} /\ (\A x \in s : s \ {x} \in P) => s \in P
  <2> SUFFICES ASSUME NEW s \in SUBSET S, s # {}, \A x \in s : s \ {x} \in P
               PROVE  g[s] = k[s]
    OBVIOUS
  <2>1. Max(s) \in s
    BY LargestExists
  <2>2. g[s \ {Max(s)}] = k[s \ {Max(s)}]
    BY <2>1
  <2> QED
    BY <2>2 DEF RowsLoop
<1> HIDE DEF P
<1>4. P = SUBSET S
  BY <1>1, <1>2, <1>3, Removing
<1> QED
  BY <1>4 DEF P

(* So is the dictionary after it.                                            *)
LEMMA DictLoopsAgree ==
  ASSUME NEW n \in Nat, NEW list, NEW f, NEW g, NEW k,
         DictLoop(list, f, n, g), DictLoop(list, f, n, k)
  PROVE  g[1 .. n] = k[1 .. n]
<1> DEFINE S == 1 .. n
           P == {s \in SUBSET S : g[s] = k[s]}
<1>1. IsFiniteSet(S) /\ {} \in SUBSET S /\ P \in SUBSET SUBSET S
  BY FS_Interval
<1>2. {} \in P
  BY <1>1 DEF DictLoop
<1>3. \A s \in SUBSET S : s # {} /\ (\A x \in s : s \ {x} \in P) => s \in P
  <2> SUFFICES ASSUME NEW s \in SUBSET S, s # {}, \A x \in s : s \ {x} \in P
               PROVE  g[s] = k[s]
    OBVIOUS
  <2>1. Max(s) \in s
    BY LargestExists
  <2>2. g[s \ {Max(s)}] = k[s \ {Max(s)}]
    BY <2>1
  <2> QED
    BY <2>2 DEF DictLoop
<1> HIDE DEF P
<1>4. P = SUBSET S
  BY <1>1, <1>2, <1>3, Removing
<1> QED
  BY <1>4 DEF P

(* The dictionary after a list of quotes is that of the rows.                *)
LEMMA LoopsAgree ==
  ASSUME NEW n \in Nat, NEW list, \A i \in 1 .. n : Quote(list[i]), NEW R, UniqueTickers(R)
  PROVE  \E g : /\ RowsLoop(list, R, n, g) /\ UniqueTickers(g[1 .. n])
                /\ DictLoop(list, ByTicker(R), n, [r \in SUBSET (1 .. n) |-> ByTicker(g[r])])
<1> DEFINE U == R \cup {Memory!Stored(list[i]) : i \in 1 .. n}
           A == {T \in SUBSET U : UniqueTickers(T)}
           st == [p \in A \X (1 .. n) |-> Upserted(p[1], list[p[2]])]
<1>1. Steps(1 .. n, A, st)
  <2>1. ASSUME NEW a \in A, NEW i \in 1 .. n
        PROVE  st[<<a, i>>] \in A
    <3>1. Quote(list[i]) /\ UniqueTickers(a)
      OBVIOUS
    <3>2. UniqueTickers(Upserted(a, list[i]))
      BY <3>1, UpsertPuts
    <3>3. Upserted(a, list[i]) \subseteq a \cup {Memory!Stored(list[i])}
      BY DEF Upserted, Memory!Stored
    <3>4. Memory!Stored(list[i]) \in U
      OBVIOUS
    <3>5. Upserted(a, list[i]) \in A
      BY <3>2, <3>3, <3>4
    <3> QED
      BY <3>5
  <2> QED
    BY <2>1 DEF Steps
<1>2. R \in A
  OBVIOUS
<1>a. \A a \in A, i \in 1 .. n : st[<<a, i>>] = Upserted(a, list[i])
  OBVIOUS
<1>b. \A a \in A : UniqueTickers(a)
  OBVIOUS
<1> HIDE DEF A, st
<1>3. PICK g : LeftFold(n, A, R, st, g)
  BY <1>1, <1>2, LeftFoldExists
<1>4. g \in [SUBSET (1 .. n) -> A]
  BY <1>3 DEF LeftFold
<1>5. ASSUME NEW r \in SUBSET (1 .. n)
      PROVE  /\ r = {} => g[r] = R
             /\ r # {} => /\ Max(r) \in 1 .. n /\ g[r \ {Max(r)}] \in A
                          /\ g[r] = Upserted(g[r \ {Max(r)}], list[Max(r)])
  <2>1. CASE r = {}
    BY <1>3, <2>1 DEF LeftFold
  <2>2. CASE r # {}
    <3>1. Max(r) \in 1 .. n
      BY <2>2, LargestExists
    <3>2. g[r \ {Max(r)}] \in A
      BY <1>4
    <3>3. g[r] = st[<<g[r \ {Max(r)}], Max(r)>>]
      BY <1>3, <2>2 DEF LeftFold
    <3> QED
      BY <1>a, <2>2, <3>1, <3>2, <3>3
  <2> QED
    BY <2>1, <2>2
<1>6. RowsLoop(list, R, n, g)
  <2>1. \A r \in SUBSET (1 .. n) : g[r] = IF r = {} THEN R ELSE Upserted(g[r \ {Max(r)}], list[Max(r)])
    BY <1>5
  <2>2. g = [r \in SUBSET (1 .. n) |-> g[r]]
    BY <1>4
  <2> QED
    BY <2>1, <2>2 DEF RowsLoop
<1>7. UniqueTickers(g[1 .. n])
  BY <1>4, <1>b
<1> DEFINE k == [r \in SUBSET (1 .. n) |-> ByTicker(g[r])]
<1>8. ASSUME NEW r \in SUBSET (1 .. n)
      PROVE  k[r] = IF r = {} THEN ByTicker(R) ELSE
               Memory!Put(k[r \ {Max(r)}], Normal[list[Max(r)].ticker], Memory!Stored(list[Max(r)]))
  <2>1. CASE r = {}
    BY <1>5, <2>1
  <2>2. CASE r # {}
    <3>1. k[r] = ByTicker(Upserted(g[r \ {Max(r)}], list[Max(r)]))
      BY <1>5, <2>2
    <3>2. UniqueTickers(g[r \ {Max(r)}]) /\ Quote(list[Max(r)])
      BY <1>5, <1>b, <2>2
    <3>3. k[r \ {Max(r)}] = ByTicker(g[r \ {Max(r)}])
      OBVIOUS
    <3> HIDE DEF k
    <3> QED
      BY <2>2, <3>1, <3>2, <3>3, UpsertPuts
  <2> QED
    BY <2>1, <2>2
<1>9. DictLoop(list, ByTicker(R), n, k)
  <2>1. k = [r \in SUBSET (1 .. n) |-> k[r]]
    OBVIOUS
  <2> HIDE DEF k
  <2> QED
    BY <1>8, <2>1 DEF DictLoop
<1> QED
  BY <1>6, <1>7, <1>9

(* upsert_market_quotes.                                                     *)
LEMMA UpsertQuotesMatches ==
  ASSUME MarketInv, NEW list \in QuoteLists, UpsertMarketQuotes(list)
  PROVE  Memory!UpsertMarketQuotes(list) /\ MarketInv'
<1> DEFINE n == Len(list)
           R == market_quotes
           f == DictQuotes
           rowsIt == CHOOSE k : RowsLoop(list, R, n, k)
           dictIt == CHOOSE k : DictLoop(list, f, n, k)
<1>1. n \in Nat /\ DOMAIN list = 1 .. n /\ \A i \in 1 .. n : Quote(list[i])
  <2>1. list \in Seq({list[i] : i \in DOMAIN list})
    BY RepositoryInputs
  <2>2. n \in Nat /\ DOMAIN list = 1 .. n
    BY <2>1
  <2>3. \A i \in DOMAIN list : Quote(list[i])
    BY RepositoryInputs DEF Quote
  <2> QED
    BY <2>2, <2>3
<1>2. FoldLeft(Upserted, R, list) = rowsIt[1 .. n]
  <2>1. FoldLeft(Upserted, R, list)
          = (CHOOSE k : k = [r \in SUBSET DOMAIN list |-> IF r = {} THEN R ELSE
                               Upserted(k[r \ {Max(r)}], list[Max(r)])])[DOMAIN list]
    BY DEF FoldLeft, MapThenFoldSet
  <2> HIDE DEF n
  <2> QED
    BY <1>1, <2>1 DEF RowsLoop
<1>3. Memory!FoldLeft(LAMBDA kept, q : Memory!Put(kept, Normal[q.ticker], Memory!Stored(q)), f, list)
        = dictIt[1 .. n]
  <2>1. Memory!FoldLeft(LAMBDA kept, q : Memory!Put(kept, Normal[q.ticker], Memory!Stored(q)), f, list)
          = (CHOOSE k : k = [r \in SUBSET DOMAIN list |-> IF r = {} THEN f ELSE
               Memory!Put(k[r \ {Max(r)}], Normal[list[Max(r)].ticker],
                          Memory!Stored(list[Max(r)]))])[DOMAIN list]
    BY DEF Memory!FoldLeft, Memory!MapThenFoldSet, Memory!Max, Max
  <2> HIDE DEF n
  <2> QED
    BY <1>1, <2>1 DEF DictLoop
<1> HIDE DEF n
<1>4. UniqueTickers(R) /\ f = ByTicker(R)
  BY DEF MarketInv, QuotesOk, DictQuotes
<1>5. PICK g : /\ RowsLoop(list, R, n, g) /\ UniqueTickers(g[1 .. n])
               /\ DictLoop(list, f, n, [r \in SUBSET (1 .. n) |-> ByTicker(g[r])])
  BY <1>1, <1>4, LoopsAgree
<1>6. RowsLoop(list, R, n, rowsIt) /\ DictLoop(list, f, n, dictIt)
  BY <1>5
<1> HIDE DEF rowsIt, dictIt
<1>7. rowsIt[1 .. n] = g[1 .. n]
  BY <1>1, <1>5, <1>6, RowsLoopsAgree
<1>8. dictIt[1 .. n] = ByTicker(g[1 .. n])
  <2> DEFINE k == [r \in SUBSET (1 .. n) |-> ByTicker(g[r])]
  <2>1. k[1 .. n] = ByTicker(g[1 .. n]) /\ DictLoop(list, f, n, k)
    BY <1>5
  <2> HIDE DEF k
  <2> QED
    BY <1>1, <1>6, <2>1, DictLoopsAgree
<1>9. /\ Write(<<"upsert_market_quotes", list>>,
               [i \in DOMAIN list |-> [list[i] EXCEPT !.ticker = Normal[@]]])
      /\ R' = rowsIt[1 .. n] /\ UNCHANGED <<accounts, books, option_chain_snapshots>>
  BY <1>2 DEF UpsertMarketQuotes
<1>10. MarketInv'
  BY <1>5, <1>7, <1>9 DEF MarketInv, QuotesOk, OptionsOk
<1>11. f' = dictIt[1 .. n]
  BY <1>7, <1>8, <1>9 DEF DictQuotes
<1>12. UNCHANGED DictOptions /\ UNCHANGED Memory!accounts /\ UNCHANGED Memory!books
  BY <1>9, AccountsSame, BooksSame, OptionsSame
<1>13. Memory!Write(<<"upsert_market_quotes", list>>, [i \in DOMAIN list |-> Memory!Stored(list[i])])
  <2>1. Memory!Write(<<"upsert_market_quotes", list>>,
                     [i \in DOMAIN list |-> [list[i] EXCEPT !.ticker = Normal[@]]])
    BY <1>9, WriteMatches
  <2> QED
    BY <2>1 DEF Memory!Stored
<1> QED
  BY <1>3, <1>10, <1>11, <1>12, <1>13 DEF Memory!UpsertMarketQuotes
(* get_market_quotes: the tickers asked for are the same sequence there.     *)
NormalLoop(list, n, k) ==
  k = [r \in SUBSET (1 .. n) |->
         IF r = {} THEN <<>>
         ELSE IF Normal[list[Max(r)]] = None \/ Contains(k[r \ {Max(r)}], Normal[list[Max(r)]])
         THEN k[r \ {Max(r)}] ELSE Append(k[r \ {Max(r)}], Normal[list[Max(r)]])]

(* Normalising a list one ticker after the other ends.                       *)
LEMMA NormalLoopExists ==
  ASSUME NEW n \in Nat, NEW list
  PROVE  \E g : NormalLoop(list, n, g) /\ g[1 .. n] \in Seq({Normal[list[i]] : i \in 1 .. n})
<1> DEFINE A == Seq({Normal[list[i]] : i \in 1 .. n})
           st == [p \in A \X (1 .. n) |->
                    IF Normal[list[p[2]]] = None \/ Contains(p[1], Normal[list[p[2]]]) THEN p[1]
                    ELSE Append(p[1], Normal[list[p[2]]])]
<1>1. Steps(1 .. n, A, st) /\ <<>> \in A
  BY DEF Steps
<1>2. \A a \in A, i \in 1 .. n :
        st[<<a, i>>] = IF Normal[list[i]] = None \/ Contains(a, Normal[list[i]]) THEN a
                       ELSE Append(a, Normal[list[i]])
  OBVIOUS
<1> HIDE DEF A, st
<1>3. PICK g : LeftFold(n, A, <<>>, st, g)
  BY <1>1, LeftFoldExists
<1>4. g \in [SUBSET (1 .. n) -> A]
  BY <1>3 DEF LeftFold
<1>5. ASSUME NEW r \in SUBSET (1 .. n)
      PROVE  g[r] = IF r = {} THEN <<>> ELSE
               IF Normal[list[Max(r)]] = None \/ Contains(g[r \ {Max(r)}], Normal[list[Max(r)]])
               THEN g[r \ {Max(r)}] ELSE Append(g[r \ {Max(r)}], Normal[list[Max(r)]])
  <2>1. CASE r = {}
    BY <1>3, <2>1 DEF LeftFold
  <2>2. CASE r # {}
    <3>1. Max(r) \in 1 .. n
      BY <2>2, LargestExists
    <3>2. g[r \ {Max(r)}] \in A
      BY <1>4
    <3>3. g[r] = st[<<g[r \ {Max(r)}], Max(r)>>]
      BY <1>3, <2>2 DEF LeftFold
    <3> QED
      BY <1>2, <2>2, <3>1, <3>2, <3>3
  <2> QED
    BY <2>1, <2>2
<1>6. NormalLoop(list, n, g)
  <2>1. g = [r \in SUBSET (1 .. n) |-> g[r]]
    BY <1>4
  <2> QED
    BY <1>5, <2>1 DEF NormalLoop
<1> QED
  BY <1>4, <1>6 DEF A

(* And in one way.                                                           *)
LEMMA NormalLoopsAgree ==
  ASSUME NEW n \in Nat, NEW list, NEW g, NEW k, NormalLoop(list, n, g), NormalLoop(list, n, k)
  PROVE  g[1 .. n] = k[1 .. n]
<1> DEFINE S == 1 .. n
           P == {s \in SUBSET S : g[s] = k[s]}
<1>1. IsFiniteSet(S) /\ {} \in SUBSET S /\ P \in SUBSET SUBSET S
  BY FS_Interval
<1>2. {} \in P
  BY <1>1 DEF NormalLoop
<1>3. \A s \in SUBSET S : s # {} /\ (\A x \in s : s \ {x} \in P) => s \in P
  <2> SUFFICES ASSUME NEW s \in SUBSET S, s # {}, \A x \in s : s \ {x} \in P
               PROVE  g[s] = k[s]
    OBVIOUS
  <2>1. Max(s) \in s
    BY LargestExists
  <2>2. g[s \ {Max(s)}] = k[s \ {Max(s)}]
    BY <2>1
  <2> DEFINE Loop(f) == IF Normal[list[Max(s)]] = None \/ Contains(f, Normal[list[Max(s)]]) THEN f
                        ELSE Append(f, Normal[list[Max(s)]])
  <2>3. g[s] = Loop(g[s \ {Max(s)}])
    BY DEF NormalLoop
  <2>4. k[s] = Loop(k[s \ {Max(s)}])
    BY DEF NormalLoop
  <2> QED
    BY <2>2, <2>3, <2>4
<1> HIDE DEF P
<1>4. P = SUBSET S
  BY <1>1, <1>2, <1>3, Removing
<1> QED
  BY <1>4 DEF P

(* _normalize_tickers: both repositories get the same list of tickers.       *)
LEMMA NormalTickers ==
  ASSUME NEW list, list \in Seq({list[i] : i \in DOMAIN list})
  PROVE  /\ NormalizeTickers(list) \in Seq({Normal[list[i]] : i \in DOMAIN list})
         /\ Memory!NormalizeTickers(list) = NormalizeTickers(list)
<1> DEFINE n == Len(list)
           it == CHOOSE k : NormalLoop(list, n, k)
<1>1. n \in Nat /\ DOMAIN list = 1 .. n
  OBVIOUS
<1>2. NormalizeTickers(list) = it[1 .. n]
  <2>1. NormalizeTickers(list)
          = (CHOOSE k : k = [r \in SUBSET DOMAIN list |->
               IF r = {} THEN <<>>
               ELSE IF Normal[list[Max(r)]] = None \/ Contains(k[r \ {Max(r)}], Normal[list[Max(r)]])
               THEN k[r \ {Max(r)}] ELSE Append(k[r \ {Max(r)}], Normal[list[Max(r)]])])[DOMAIN list]
    BY DEF NormalizeTickers, FoldLeft, MapThenFoldSet
  <2> HIDE DEF n
  <2> QED
    BY <1>1, <2>1 DEF NormalLoop
<1>3. Memory!NormalizeTickers(list) = it[1 .. n]
  <2>1. Memory!NormalizeTickers(list)
          = (CHOOSE k : k = [r \in SUBSET DOMAIN list |->
               IF r = {} THEN <<>>
               ELSE IF Normal[list[Max(r)]] = None \/ Contains(k[r \ {Max(r)}], Normal[list[Max(r)]])
               THEN k[r \ {Max(r)}] ELSE Append(k[r \ {Max(r)}], Normal[list[Max(r)]])])[DOMAIN list]
    BY DEF Memory!NormalizeTickers, Memory!FoldLeft, Memory!MapThenFoldSet, Memory!Max, Max,
           Memory!Contains, Contains
  <2> HIDE DEF n
  <2> QED
    BY <1>1, <2>1 DEF NormalLoop
<1> HIDE DEF n
<1>4. PICK g : NormalLoop(list, n, g) /\ g[1 .. n] \in Seq({Normal[list[i]] : i \in 1 .. n})
  BY <1>1, NormalLoopExists
<1>5. NormalLoop(list, n, it)
  BY <1>4
<1> HIDE DEF it
<1>6. it[1 .. n] = g[1 .. n]
  BY <1>1, <1>4, <1>5, NormalLoopsAgree
<1> QED
  BY <1>1, <1>2, <1>3, <1>4, <1>6

(* get_market_quotes.                                                        *)
LEMMA GetQuotesMatches ==
  ASSUME MarketInv, NEW list \in TickerLists, NEW since, GetMarketQuotes(list, since)
  PROVE  Memory!GetMarketQuotes(list, since)
<1> DEFINE D == DictQuotes
           s == NormalizeTickers(list)
           n == Len(s)
           rows == {r \in market_quotes : Contains(s, r.ticker) /\ Fresh(r, since)}
           of(t) == {r \in rows : r.ticker = t}
           fresh(t) == t \in DOMAIN D /\ Memory!NotBefore(D[t], since)
           c == <<"get_market_quotes", list, since>>
           Here(k) == [r \in SUBSET DOMAIN s |->
               IF r = {} THEN <<>> ELSE IF of(s[Max(r)]) = {} THEN k[r \ {Max(r)}]
               ELSE Append(k[r \ {Max(r)}], The(of(s[Max(r)])))]
           There(k) == [r \in SUBSET DOMAIN s |->
               IF r = {} THEN <<>> ELSE IF fresh(s[Max(r)]) THEN Append(k[r \ {Max(r)}], D[s[Max(r)]])
               ELSE k[r \ {Max(r)}]]
<1>1. /\ s \in Seq({Normal[list[i]] : i \in DOMAIN list}) /\ Memory!NormalizeTickers(list) = s
  BY RepositoryInputs, NormalTickers
<1>2. n \in Nat /\ DOMAIN s = 1 .. n
  BY <1>1
<1>3. /\ \A r \in market_quotes : r.ticker \in DOMAIN D /\ D[r.ticker] = r
      /\ \A t \in DOMAIN D : D[t] \in market_quotes /\ D[t].ticker = t
  BY TickerEntries DEF MarketInv, QuotesOk, DictQuotes
<1>4. Memory!Read(c, FoldLeft(LAMBDA kept, t : IF of(t) = {} THEN kept
                                               ELSE Append(kept, The(of(t))), <<>>, s))
  BY ReadMatches DEF GetMarketQuotes
<1>5. FoldLeft(LAMBDA kept, t : IF of(t) = {} THEN kept ELSE Append(kept, The(of(t))), <<>>, s)
        = (CHOOSE k : k = Here(k))[DOMAIN s]
  BY DEF FoldLeft, MapThenFoldSet
<1>6. Memory!FoldLeft(LAMBDA kept, t : IF fresh(t) THEN Append(kept, D[t]) ELSE kept, <<>>, s)
        = (CHOOSE k : k = There(k))[DOMAIN s]
  BY DEF Memory!FoldLeft, Memory!MapThenFoldSet, Memory!Max, Max
<1>7. ASSUME NEW t, Contains(s, t)
      PROVE  (of(t) = {} <=> ~fresh(t)) /\ (fresh(t) => The(of(t)) = D[t])
  <2>1. \A r : Memory!NotBefore(r, since) <=> Fresh(r, since)
    BY DEF Memory!NotBefore, Fresh
  <2>2. CASE fresh(t)
    <3>1. D[t] \in of(t)
      BY <1>3, <1>7, <2>1, <2>2
    <3>2. \A r \in of(t) : r = D[t]
      BY <1>3
    <3>3. of(t) = {D[t]}
      BY <3>1, <3>2
    <3> QED
      BY <2>2, <3>3, TheOnly
  <2>3. CASE ~fresh(t)
    <3>1. \A r \in of(t) : FALSE
      BY <1>3, <2>1, <2>3
    <3> QED
      BY <2>3, <3>1
  <2> QED
    BY <2>2, <2>3
<1>8. ASSUME NEW r \in SUBSET DOMAIN s, r # {}
      PROVE  Contains(s, s[Max(r)])
  <2>1. Max(r) \in 1 .. n
    BY <1>2, <1>8, LargestExists
  <2> QED
    BY <1>2, <2>1 DEF Contains
<1> HIDE DEF of, fresh, s, D
<1>9. ASSUME NEW k
      PROVE  Here(k) = There(k)
  <2>1. \A r \in SUBSET DOMAIN s :
          (IF r = {} THEN <<>> ELSE IF of(s[Max(r)]) = {} THEN k[r \ {Max(r)}]
               ELSE Append(k[r \ {Max(r)}], The(of(s[Max(r)]))))
          = (IF r = {} THEN <<>> ELSE IF fresh(s[Max(r)]) THEN Append(k[r \ {Max(r)}], D[s[Max(r)]])
               ELSE k[r \ {Max(r)}])
    BY <1>7, <1>8
  <2> QED
    BY <2>1
<1> HIDE DEF Here, There
<1>10. (CHOOSE k : k = Here(k)) = (CHOOSE k : k = There(k))
  BY <1>9
<1>11. Memory!Read(c, Memory!FoldLeft(LAMBDA kept, t : IF fresh(t) THEN Append(kept, D[t]) ELSE kept,
                                      <<>>, s))
  BY <1>4, <1>5, <1>6, <1>10
<1> QED
  BY <1>1, <1>11 DEF Memory!GetMarketQuotes, fresh, D

(* What is true of market data stays true while it is left alone.            *)
LEMMA MarketKept ==
  ASSUME MarketInv, UNCHANGED market
  PROVE  MarketInv'
<1>1. market_quotes' = market_quotes /\ option_chain_snapshots' = option_chain_snapshots
  BY DEF market
<1> QED
  BY <1>1 DEF MarketInv, QuotesOk, OptionsOk, UniqueTickers, UniqueIds, UniqueHashes
-----------------------------------------------------------------------------
(* Sorting: a finite set in a strict order has one sorted enumeration. The   *)
(* order is a set of pairs.                                                  *)
Line(R, S, q) ==
  /\ q \in Bijection(1 .. Cardinality(S), S)
  /\ \A i, j \in DOMAIN q : i < j => <<q[i], q[j]>> \in R
Strict(R, S) ==
  /\ \A x, y \in S : x = y \/ <<x, y>> \in R \/ <<y, x>> \in R
  /\ \A x, y \in S : <<x, y>> \in R => <<y, x>> \notin R
  /\ \A x, y, z \in S : <<x, y>> \in R /\ <<y, z>> \in R => <<x, z>> \in R

(* An enumeration lists every element once.                                  *)
LEMMA Listing ==
  ASSUME NEW S, NEW n, NEW q
  PROVE  q \in Bijection(1 .. n, S) <=>
           /\ q \in [1 .. n -> S]
           /\ \A i, j \in 1 .. n : q[i] = q[j] => i = j
           /\ \A x \in S : \E i \in 1 .. n : q[i] = x
  BY DEF Bijection, Injection, Surjection, IsInjective

(* A sorted enumeration, once there is one element more, greater than all.   *)
LEMMA LineGrows ==
  ASSUME NEW R, NEW S, IsFiniteSet(S), NEW x, x \notin S, \A y \in S : <<y, x>> \in R,
         NEW q, Line(R, S, q)
  PROVE  Line(R, S \cup {x}, Append(q, x))
<1> DEFINE n == Cardinality(S)
           p == Append(q, x)
<1>1. n \in Nat /\ Cardinality(S \cup {x}) = n + 1
  BY FS_AddElement, FS_CardinalityType
<1>2. /\ q \in [1 .. n -> S] /\ \A i, j \in 1 .. n : q[i] = q[j] => i = j
      /\ \A y \in S : \E i \in 1 .. n : q[i] = y
  BY Listing DEF Line
<1>3. \A i, j \in 1 .. n : i < j => <<q[i], q[j]>> \in R
  BY <1>2 DEF Line
<1> HIDE DEF n
<1>4. q \in Seq(S) /\ Len(q) = n
  BY <1>1, <1>2
<1>5. /\ DOMAIN p = 1 .. (n + 1) /\ p \in [1 .. (n + 1) -> S \cup {x}] /\ p[n + 1] = x
      /\ \A i \in 1 .. n : p[i] = q[i]
  <2>1. p \in Seq(S \cup {x}) /\ Len(p) = n + 1
    BY <1>1, <1>4
  <2>2. p[n + 1] = x /\ \A i \in 1 .. n : p[i] = q[i]
    BY <1>1, <1>4
  <2>3. p \in [1 .. Len(p) -> S \cup {x}]
    BY <2>1, LenProperties
  <2> HIDE DEF p
  <2> QED
    BY <2>1, <2>2, <2>3
<1> HIDE DEF p
<1>6. \A i \in 1 .. (n + 1) : (i = n + 1 /\ p[i] = x) \/ (i \in 1 .. n /\ p[i] = q[i] /\ q[i] \in S)
  BY <1>1, <1>2, <1>5
<1>7. \A i, j \in 1 .. (n + 1) : p[i] = p[j] => i = j
  BY <1>2, <1>6
<1>8. \A y \in S \cup {x} : \E i \in 1 .. (n + 1) : p[i] = y
  BY <1>1, <1>2, <1>5
<1>9. p \in Bijection(1 .. (n + 1), S \cup {x})
  BY <1>5, <1>7, <1>8, Listing
<1>10. ASSUME NEW i \in 1 .. (n + 1), NEW j \in 1 .. (n + 1), i < j
       PROVE  <<p[i], p[j]>> \in R
  <2>1. i \in 1 .. n /\ p[i] = q[i] /\ q[i] \in S
    BY <1>1, <1>6, <1>10
  <2>2. CASE j = n + 1
    BY <1>5, <2>1, <2>2
  <2>3. CASE j \in 1 .. n
    BY <1>3, <1>5, <1>10, <2>1, <2>3
  <2> QED
    BY <1>6, <2>2, <2>3
<1> QED
  BY <1>1, <1>5, <1>9, <1>10 DEF Line, p

(* A finite set that is not empty has an element greater than all others.    *)
LEMMA GreatestIn ==
  ASSUME NEW S, IsFiniteSet(S), NEW R, Strict(R, S)
  PROVE  S # {} => \E x \in S : \A y \in S : y = x \/ <<y, x>> \in R
<1> DEFINE Has(s) == \E x \in s : \A y \in s : y = x \/ <<y, x>> \in R
           P == {s \in SUBSET S : s = {} \/ Has(s)}
<1>3a. P \in SUBSET SUBSET S
  OBVIOUS
<1>1. {} \in P
  OBVIOUS
<1>2. \A s \in SUBSET S : s # {} /\ (\A x \in s : s \ {x} \in P) => s \in P
  <2> SUFFICES ASSUME NEW s \in SUBSET S, s # {}, \A x \in s : s \ {x} \in P
               PROVE  Has(s)
    OBVIOUS
  <2>1. PICK z \in s : TRUE
    OBVIOUS
  <2>2. CASE s \ {z} = {}
    BY <2>1, <2>2
  <2>3. CASE Has(s \ {z})
    <3>1. PICK x \in s \ {z} : \A y \in s \ {z} : y = x \/ <<y, x>> \in R
      BY <2>3
    <3>2. CASE <<z, x>> \in R
      BY <3>1, <3>2
    <3>3. CASE <<x, z>> \in R
      <4>1. \A y \in s : y = z \/ <<y, z>> \in R
        BY <3>1, <3>3 DEF Strict
      <4> QED
        BY <4>1
    <3> QED
      BY <3>1, <3>2, <3>3 DEF Strict
  <2> QED
    BY <2>1, <2>2, <2>3
<1> HIDE DEF P
<1>3. P = SUBSET S
  BY <1>3a, <1>1, <1>2, Removing
<1> QED
  BY <1>3 DEF P

(* It exists.                                                                *)
LEMMA LineExists ==
  ASSUME NEW S, IsFiniteSet(S), NEW R, Strict(R, S)
  PROVE  \E q : Line(R, S, q)
<1> DEFINE P == {s \in SUBSET S : \E q : Line(R, s, q)}
<1>0. \A s \in SUBSET S : IsFiniteSet(s)
  BY FS_Subset
<1>3a. P \in SUBSET SUBSET S
  OBVIOUS
<1>1. {} \in P
  <2>1. 1 .. Cardinality({}) = {}
    BY FS_EmptySet
  <2> DEFINE q == [i \in {} |-> 0]
  <2>2. Line(R, {}, q)
    BY <2>1 DEF Line, Bijection, Injection, Surjection, IsInjective
  <2> QED
    BY <2>2
<1>2. \A s \in SUBSET S : s # {} /\ (\A x \in s : s \ {x} \in P) => s \in P
  <2> SUFFICES ASSUME NEW s \in SUBSET S, s # {}, \A x \in s : s \ {x} \in P
               PROVE  \E q : Line(R, s, q)
    OBVIOUS
  <2>1. PICK x \in s : \A y \in s : y = x \/ <<y, x>> \in R
    <3>1. Strict(R, s)
      BY DEF Strict
    <3> QED
      BY <1>0, <3>1, GreatestIn
  <2>2. PICK q : Line(R, s \ {x}, q)
    BY <2>1
  <2>3. Line(R, (s \ {x}) \cup {x}, Append(q, x))
    <3>1. IsFiniteSet(s \ {x}) /\ x \notin s \ {x} /\ \A y \in s \ {x} : <<y, x>> \in R
      BY <1>0, <2>1
    <3> QED
      BY <2>2, <3>1, LineGrows
  <2>4. (s \ {x}) \cup {x} = s
    BY <2>1
  <2> QED
    BY <2>3, <2>4
<1> HIDE DEF P
<1>3. P = SUBSET S
  BY <1>3a, <1>1, <1>2, Removing
<1> QED
  BY <1>3 DEF P

(* It is the only one.                                                       *)
LEMMA LineUnique ==
  ASSUME NEW S, IsFiniteSet(S), NEW R, Strict(R, S), NEW q, Line(R, S, q), NEW p, Line(R, S, p)
  PROVE  q = p
<1> DEFINE n == Cardinality(S)
           N == {i \in 1 .. n : q[i] # p[i]}
<1>1. n \in Nat
  BY FS_CardinalityType
<1>2. /\ q \in [1 .. n -> S] /\ \A i, j \in 1 .. n : q[i] = q[j] => i = j
      /\ \A y \in S : \E i \in 1 .. n : q[i] = y
  BY Listing DEF Line
<1>3. /\ p \in [1 .. n -> S] /\ \A i, j \in 1 .. n : p[i] = p[j] => i = j
      /\ \A y \in S : \E i \in 1 .. n : p[i] = y
  BY Listing DEF Line
<1>4. /\ \A i, j \in 1 .. n : i < j => <<q[i], q[j]>> \in R
      /\ \A i, j \in 1 .. n : i < j => <<p[i], p[j]>> \in R
  BY <1>2, <1>3 DEF Line
<1> HIDE DEF n
<1>5. ASSUME N # {}
      PROVE  FALSE
  <2>1. N \in SUBSET Nat
    BY <1>1
  <2>2. PICK i \in N : \A j \in N : i <= j
    BY <1>5, <2>1, LeastNumber
  <2>3. i \in 1 .. n /\ q[i] # p[i] /\ \A j \in 1 .. n : j < i => q[j] = p[j]
    BY <1>1, <2>2
  <2>4. PICK j \in 1 .. n : p[j] = q[i]
    BY <1>2, <1>3, <2>3
  <2>5. i < j
    BY <1>1, <1>2, <2>3, <2>4
  <2>6. PICK k \in 1 .. n : q[k] = p[i]
    BY <1>2, <1>3, <2>3
  <2>7. i < k
    BY <1>1, <1>3, <2>3, <2>6
  <2>8. <<p[i], q[i]>> \in R /\ <<q[i], p[i]>> \in R
    BY <1>4, <2>3, <2>4, <2>5, <2>6, <2>7
  <2>9. q[i] \in S /\ p[i] \in S
    BY <1>2, <1>3, <2>3
  <2> QED
    BY <2>8, <2>9 DEF Strict
<1>6. \A i \in 1 .. n : q[i] = p[i]
  BY <1>5
<1>7. q = [i \in 1 .. n |-> q[i]] /\ p = [i \in 1 .. n |-> p[i]]
  BY <1>2, <1>3
<1>8. [i \in 1 .. n |-> q[i]] = [i \in 1 .. n |-> p[i]]
  BY <1>6
<1> QED
  BY <1>7, <1>8

(* A map that keeps the order takes a sorted enumeration to one.             *)
Mapped(q, f) == [i \in DOMAIN q |-> f[q[i]]]
Moved(S, R, Q, q, f, T) ==
  /\ IsFiniteSet(S) /\ Line(R, S, q) /\ T = {f[x] : x \in S}
  /\ \A x, y \in S : f[x] = f[y] => x = y
  /\ \A x, y \in S : <<x, y>> \in R => <<f[x], f[y]>> \in Q

(* It is sorted by the order that the map took along.                        *)
LEMMA LineMoves ==
  ASSUME NEW S, NEW R, NEW Q, NEW q, NEW f, NEW T, Moved(S, R, Q, q, f, T)
  PROVE  Line(Q, T, Mapped(q, f)) /\ IsFiniteSet(T)
<1>0. /\ IsFiniteSet(S) /\ Line(R, S, q) /\ T = {f[x] : x \in S}
      /\ \A x, y \in S : f[x] = f[y] => x = y
      /\ \A x, y \in S : <<x, y>> \in R => <<f[x], f[y]>> \in Q
  BY DEF Moved
<1> DEFINE n == Cardinality(S)
           p == [i \in DOMAIN q |-> f[q[i]]]
           g == [x \in S |-> f[x]]
<1>1. n \in Nat
  BY <1>0, FS_CardinalityType
<1>2. /\ q \in [1 .. n -> S] /\ \A i, j \in 1 .. n : q[i] = q[j] => i = j
      /\ \A y \in S : \E i \in 1 .. n : q[i] = y
  BY <1>0, Listing DEF Line
<1>3. \A i, j \in 1 .. n : i < j => <<q[i], q[j]>> \in R
  BY <1>0, <1>2 DEF Line
<1>4. IsFiniteSet(T) /\ Cardinality(T) = n
  <2>1. g \in Bijection(S, T)
    BY <1>0 DEF Bijection, Injection, Surjection, IsInjective
  <2> HIDE DEF g
  <2> QED
    BY <1>0, <2>1, FS_Bijection DEF ExistsBijection
<1> HIDE DEF n, g
<1>5. DOMAIN p = 1 .. n /\ p \in [1 .. n -> T] /\ \A i \in 1 .. n : p[i] = f[q[i]] /\ q[i] \in S
  BY <1>0, <1>2
<1> HIDE DEF p
<1>6. \A i, j \in 1 .. n : p[i] = p[j] => i = j
  BY <1>0, <1>2, <1>5
<1>7. \A y \in T : \E i \in 1 .. n : p[i] = y
  BY <1>0, <1>2, <1>5
<1>8. p \in Bijection(1 .. n, T)
  BY <1>5, <1>6, <1>7, Listing
<1>9. ASSUME NEW i \in 1 .. n, NEW j \in 1 .. n, i < j
      PROVE  <<p[i], p[j]>> \in Q
  <2>1. <<q[i], q[j]>> \in R /\ q[i] \in S /\ q[j] \in S
    BY <1>3, <1>5, <1>9
  <2>2. <<f[q[i]], f[q[j]]>> \in Q
    BY <1>0, <2>1
  <2> QED
    BY <1>5, <2>2
<1> QED
  BY <1>4, <1>5, <1>8, <1>9 DEF Line, p, Mapped
-----------------------------------------------------------------------------
(* The two orders: by number, and by date and number.                        *)
ByNumber(S) == {w \in S \X S : w[1].id < w[2].id}
ByDate(S) == {w \in S \X S : \/ w[1].at < w[2].at
                             \/ w[1].at = w[2].at /\ w[1].id < w[2].id}
IntIds(S) == \A x \in S : x.id \in Int
IntDates(S) == \A x \in S : x.at \in Int

LEMMA StrictOrders ==
  ASSUME NEW S, UniqueIds(S), IntIds(S)
  PROVE  Strict(ByNumber(S), S) /\ (IntDates(S) => Strict(ByDate(S), S))
<1>1. \A x, y \in S : <<x, y>> \in ByNumber(S) <=> x.id < y.id
  BY DEF ByNumber
<1>2. \A x, y \in S : <<x, y>> \in ByDate(S) <=> x.at < y.at \/ (x.at = y.at /\ x.id < y.id)
  BY DEF ByDate
<1>3. Strict(ByNumber(S), S)
  BY <1>1 DEF Strict, UniqueIds, IntIds
<1>4. ASSUME IntDates(S)
      PROVE  Strict(ByDate(S), S)
  <2>0. \A x \in S : x.id \in Int /\ x.at \in Int
    BY <1>4 DEF IntIds, IntDates
  <2>1. ASSUME NEW x \in S, NEW y \in S, x # y
        PROVE  <<x, y>> \in ByDate(S) \/ <<y, x>> \in ByDate(S)
    <3>1. x.id # y.id
      BY <2>1 DEF UniqueIds
    <3> QED
      BY <1>2, <2>0, <3>1
  <2>2. \A x, y \in S : <<x, y>> \in ByDate(S) => <<y, x>> \notin ByDate(S)
    BY <1>2, <2>0
  <2>3. \A x, y, z \in S : <<x, y>> \in ByDate(S) /\ <<y, z>> \in ByDate(S) => <<x, z>> \in ByDate(S)
    BY <1>2, <2>0
  <2> QED
    BY <2>1, <2>2, <2>3 DEF Strict
<1> QED
  BY <1>3, <1>4

(* ORDER BY puts a finite set of rows with different ids in order, in one    *)
(* way.                                                                      *)
LEMMA OrderByNumber ==
  ASSUME NEW S, IsFiniteSet(S), UniqueIds(S), IntIds(S)
  PROVE  /\ Line(ByNumber(S), S, OrderBy(S, Older))
         /\ \A q : Line(ByNumber(S), S, q) => q = OrderBy(S, Older)
<1> DEFINE B == Bijection(1 .. Cardinality(S), S)
           Put(q) == \A i, j \in DOMAIN q : i < j => q[i].id < q[j].id
<1>1. OrderBy(S, Older) = CHOOSE q \in B : Put(q)
  BY DEF OrderBy, Older
<1>2. \A q \in B : Put(q) <=> Line(ByNumber(S), S, q)
  <2> SUFFICES ASSUME NEW q \in B
               PROVE  Put(q) <=> Line(ByNumber(S), S, q)
    OBVIOUS
  <2>1. \A i \in DOMAIN q : q[i] \in S
    <3>1. q \in [1 .. Cardinality(S) -> S]
      BY Listing
    <3> QED
      BY <3>1
  <2> HIDE DEF B
  <2>2. \A i, j \in DOMAIN q : <<q[i], q[j]>> \in ByNumber(S) <=> q[i].id < q[j].id
    BY <2>1 DEF ByNumber
  <2> QED
    BY <2>2 DEF Line, B
<1> HIDE DEF B, Put
<1>3. Strict(ByNumber(S), S)
  BY StrictOrders
<1>4. PICK p : Line(ByNumber(S), S, p)
  BY <1>3, LineExists
<1>5. p \in B /\ Put(p)
  <2>1. p \in B
    BY <1>4 DEF Line, B
  <2> QED
    BY <1>2, <1>4, <2>1
<1>6. OrderBy(S, Older) \in B /\ Put(OrderBy(S, Older))
  BY <1>1, <1>5
<1>7. Line(ByNumber(S), S, OrderBy(S, Older))
  BY <1>2, <1>6
<1> QED
  BY <1>3, <1>7, LineUnique

(* By date.                                                                  *)
LEMMA OrderByDate ==
  ASSUME NEW S, IsFiniteSet(S), UniqueIds(S), IntIds(S), IntDates(S)
  PROVE  /\ Line(ByDate(S), S, OrderBy(S, Sooner))
         /\ \A q : Line(ByDate(S), S, q) => q = OrderBy(S, Sooner)
<1> DEFINE B == Bijection(1 .. Cardinality(S), S)
           Put(q) == \A i, j \in DOMAIN q :
              i < j => q[i].at < q[j].at \/ (q[i].at = q[j].at /\ q[i].id < q[j].id)
<1>1. OrderBy(S, Sooner) = CHOOSE q \in B : Put(q)
  BY DEF OrderBy, Sooner
<1>2. \A q \in B : Put(q) <=> Line(ByDate(S), S, q)
  <2> SUFFICES ASSUME NEW q \in B
               PROVE  Put(q) <=> Line(ByDate(S), S, q)
    OBVIOUS
  <2>1. \A i \in DOMAIN q : q[i] \in S
    <3>1. q \in [1 .. Cardinality(S) -> S]
      BY Listing
    <3> QED
      BY <3>1
  <2> HIDE DEF B
  <2>2. \A i, j \in DOMAIN q : <<q[i], q[j]>> \in ByDate(S) <=>
                                 q[i].at < q[j].at \/ (q[i].at = q[j].at /\ q[i].id < q[j].id)
    BY <2>1 DEF ByDate
  <2> QED
    BY <2>2 DEF Line, B
<1> HIDE DEF B, Put
<1>3. Strict(ByDate(S), S)
  BY StrictOrders
<1>4. PICK p : Line(ByDate(S), S, p)
  BY <1>3, LineExists
<1>5. p \in B /\ Put(p)
  <2>1. p \in B
    BY <1>4 DEF Line, B
  <2> QED
    BY <1>2, <1>4, <2>1
<1>6. OrderBy(S, Sooner) \in B /\ Put(OrderBy(S, Sooner))
  BY <1>1, <1>5
<1>7. Line(ByDate(S), S, OrderBy(S, Sooner))
  BY <1>2, <1>6
<1> QED
  BY <1>3, <1>7, LineUnique

(* The entries of a ledger in order are what its rows in order hold.         *)
Entry(r) == /\ r.id = r.payload.sealed.id /\ r.at = r.payload.sealed.at
            /\ r.id \in Int /\ r.at \in Int

(* Listed by both repositories, they are in the same order.                  *)
LEMMA EntriesInOrder ==
  ASSUME NEW S, IsFiniteSet(S), UniqueIds(S), \A r \in S : Entry(r)
  PROVE  Memory!Listed({r.payload.sealed : r \in S})
           = [n \in DOMAIN OrderBy(S, Sooner) |-> OrderBy(S, Sooner)[n].payload.sealed]
<1> DEFINE f == [r \in S |-> r.payload.sealed]
           T == {f[r] : r \in S}
           q == OrderBy(S, Sooner)
           p == Mapped(q, f)
<1>0. T = {r.payload.sealed : r \in S}
  OBVIOUS
<1>1. \A r \in S : /\ f[r].id = r.id /\ f[r].at = r.at /\ r.id \in Int /\ r.at \in Int
                   /\ f[r] = r.payload.sealed
  BY DEF Entry
<1>2. IntIds(S) /\ IntDates(S)
  BY <1>1 DEF IntIds, IntDates
<1>3. Line(ByDate(S), S, q)
  BY <1>2, OrderByDate
<1>4. \A r, s \in S : f[r] = f[s] => r = s
  BY <1>1 DEF UniqueIds
<1> HIDE DEF f
<1>5. \A r, s \in S : <<r, s>> \in ByDate(S) => <<f[r], f[s]>> \in ByDate(T)
  <2> SUFFICES ASSUME NEW r \in S, NEW s \in S, <<r, s>> \in ByDate(S)
               PROVE  <<f[r], f[s]>> \in ByDate(T)
    OBVIOUS
  <2>1. r.at < s.at \/ (r.at = s.at /\ r.id < s.id)
    BY DEF ByDate
  <2>2. f[r].at < f[s].at \/ (f[r].at = f[s].at /\ f[r].id < f[s].id)
    BY <1>1, <2>1
  <2>3. f[r] \in T /\ f[s] \in T
    OBVIOUS
  <2> QED
    BY <2>2, <2>3 DEF ByDate
<1>a. T = {f[r] : r \in S}
  OBVIOUS
<1> HIDE DEF T, q
<1>6. IsFiniteSet(T) /\ Line(ByDate(T), T, p)
  <2>1. Moved(S, ByDate(S), ByDate(T), q, f, T)
    BY <1>3, <1>4, <1>5, <1>a DEF Moved
  <2> QED
    BY <2>1, LineMoves
<1>7. UniqueIds(T) /\ IntIds(T) /\ IntDates(T)
  BY <1>1, <1>a DEF UniqueIds, IntIds, IntDates
<1>8. p = OrderBy(T, Sooner)
  BY <1>6, <1>7, OrderByDate
<1>9. Memory!Listed(T) = OrderBy(T, Sooner)
  BY SameLibrary DEF Memory!Listed, Memory!Sorted, OrderBy, Memory!Sooner, Sooner
<1>10. p = [n \in DOMAIN q |-> q[n].payload.sealed]
  <2>1. q \in [1 .. Cardinality(S) -> S]
    BY <1>3, Listing DEF Line
  <2>2. \A n \in DOMAIN q : q[n] \in S
    BY <2>1
  <2> QED
    BY <1>1, <2>2 DEF Mapped
<1> QED
  BY <1>0, <1>8, <1>9, <1>10 DEF q, T

(* _load_jobs: one job more, which is the latest.                            *)
LEMMA JobAppended ==
  ASSUME NEW J, IsFiniteSet(J), UniqueIds(J), IntIds(J), NEW x, x.id \in Int,
         \A r \in J : r.id < x.id
  PROVE  LoadJobs(J \cup {x}, x.portfolio) = Append(LoadJobs(J, x.portfolio), JobFrom(x))
<1> DEFINE S == Of(J, x.portfolio)
           T == Of(J \cup {x}, x.portfolio)
           q == OrderBy(S, Older)
           p == OrderBy(T, Older)
           n == Cardinality(S)
<1>1. T = S \cup {x} /\ x \notin S /\ \A r \in S : r \in J
  BY DEF Of
<1>2. IsFiniteSet(S) /\ UniqueIds(S) /\ IntIds(S) /\ n \in Nat
  <2>1. IsFiniteSet(S)
    BY <1>1, FS_Subset
  <2> QED
    BY <1>1, <2>1, FS_CardinalityType DEF UniqueIds, IntIds
<1> HIDE DEF S, T
<1>3. UniqueIds(T) /\ IntIds(T) /\ IsFiniteSet(T)
  <2>1. IsFiniteSet(T)
    BY <1>1, <1>2, FS_AddElement
  <2>2. \A r \in S : r.id < x.id /\ r.id \in Int
    BY <1>1, <1>2 DEF IntIds
  <2> QED
    BY <1>1, <1>2, <2>1, <2>2 DEF UniqueIds, IntIds
<1>4. Line(ByNumber(S), S, q)
  BY <1>2, OrderByNumber
<1>5. Line(ByNumber(T), S, q)
  <2>1. \A w : w \in ByNumber(S) => w \in ByNumber(T)
    BY <1>1 DEF ByNumber
  <2> QED
    BY <1>4, <2>1 DEF Line
<1>6. Line(ByNumber(T), S \cup {x}, Append(q, x))
  <2>1. \A y \in S : <<y, x>> \in ByNumber(T)
    BY <1>1 DEF ByNumber
  <2> HIDE DEF q
  <2> QED
    BY <1>1, <1>2, <1>5, <2>1, LineGrows
<1>7. p = Append(q, x)
  BY <1>1, <1>3, <1>6, OrderByNumber
<1>8. q \in Seq(S) /\ Len(q) = n
  <2>1. q \in [1 .. n -> S]
    BY <1>4, Listing DEF Line
  <2> HIDE DEF q, n
  <2> QED
    BY <1>2, <2>1
<1> HIDE DEF p, q, n
<1> DEFINE a == [i \in DOMAIN q |-> JobFrom(q[i])]
           b == [i \in DOMAIN p |-> JobFrom(p[i])]
           V == {JobFrom(r) : r \in S}
<1>9. /\ DOMAIN q = 1 .. n /\ DOMAIN p = 1 .. (n + 1)
      /\ p[n + 1] = x /\ \A i \in 1 .. n : p[i] = q[i]
  <2>1. x \in S \cup {x} /\ q \in Seq(S \cup {x})
    BY <1>8
  <2>2. p \in Seq(S \cup {x}) /\ Len(p) = n + 1
    BY <1>2, <1>7, <1>8, <2>1
  <2>3. p[n + 1] = x /\ \A i \in 1 .. n : p[i] = q[i]
    BY <1>2, <1>7, <1>8
  <2> QED
    BY <1>8, <2>2, <2>3
<1>10. a \in Seq(V) /\ Len(a) = n
  <2>1. a \in [1 .. n -> V]
    <3>1. \A i \in 1 .. n : q[i] \in S
      BY <1>8, <1>9
    <3> QED
      BY <1>9, <3>1
  <2> HIDE DEF a, V
  <2> QED
    BY <1>2, <2>1
<1>11. /\ Append(a, JobFrom(x)) \in [1 .. (n + 1) -> V \cup {JobFrom(x)}]
       /\ Append(a, JobFrom(x))[n + 1] = JobFrom(x)
       /\ \A i \in 1 .. n : Append(a, JobFrom(x))[i] = a[i]
  <2> HIDE DEF a, V
  <2>1. Append(a, JobFrom(x)) \in Seq(V \cup {JobFrom(x)}) /\ Len(Append(a, JobFrom(x))) = n + 1
    BY <1>2, <1>10
  <2>2. Append(a, JobFrom(x)) \in [1 .. (n + 1) -> V \cup {JobFrom(x)}]
    BY <2>1, LenProperties
  <2> QED
    BY <1>2, <1>10, <2>2
<1>12. ASSUME NEW i \in 1 .. (n + 1)
       PROVE  b[i] = Append(a, JobFrom(x))[i]
  <2>0. i = n + 1 \/ i \in 1 .. n
    BY <1>2
  <2>1. CASE i = n + 1
    BY <1>9, <1>11, <2>1
  <2>2. CASE i \in 1 .. n
    BY <1>9, <1>11, <2>2
  <2> HIDE DEF a, b
  <2> QED
    BY <2>0, <2>1, <2>2
<1>13. b = Append(a, JobFrom(x))
  <2>1. b = [i \in 1 .. (n + 1) |-> b[i]]
    BY <1>9
  <2>2. Append(a, JobFrom(x)) = [i \in 1 .. (n + 1) |-> Append(a, JobFrom(x))[i]]
    BY <1>11
  <2> HIDE DEF a, b
  <2>3. [i \in 1 .. (n + 1) |-> b[i]] = [i \in 1 .. (n + 1) |-> Append(a, JobFrom(x))[i]]
    BY <1>12
  <2> QED
    BY <2>1, <2>2, <2>3
<1> QED
  BY <1>13 DEF LoadJobs, p, q, S, T

(* One job changed, in its place.                                            *)
Edited(q, x, y) == [n \in DOMAIN q |-> JobFrom(IF q[n] = x THEN y ELSE q[n])]
Edit(J, p, x, y, q) ==
  /\ IsFiniteSet(J) /\ UniqueIds(J) /\ IntIds(J) /\ x \in J /\ x.portfolio = p
  /\ y.id = x.id /\ y.portfolio = p /\ Line(ByNumber(Of(J, p)), Of(J, p), q)

(* _load_jobs: one job changed, the others as they were.                     *)
LEMMA JobChanged ==
  ASSUME NEW J, NEW p, NEW x, NEW y, NEW q, Edit(J, p, x, y, q)
  PROVE  /\ \E n \in DOMAIN q : q[n] = x
         /\ \A i, j \in DOMAIN q : q[i].id = q[j].id => i = j
         /\ LoadJobs((J \ {x}) \cup {y}, p) = Edited(q, x, y)
<1>0. /\ IsFiniteSet(J) /\ UniqueIds(J) /\ IntIds(J) /\ x \in J /\ x.portfolio = p
      /\ y.id = x.id /\ y.portfolio = p /\ Line(ByNumber(Of(J, p)), Of(J, p), q)
  BY DEF Edit
<1> DEFINE S == Of(J, p)
           T == Of((J \ {x}) \cup {y}, p)
           f == [r \in S |-> IF r = x THEN y ELSE r]
           m == Mapped(q, f)
<1>1. x \in S /\ \A r \in S : r \in J
  BY <1>0 DEF Of
<1>2. IsFiniteSet(S) /\ UniqueIds(S) /\ IntIds(S)
  <2>1. IsFiniteSet(S)
    BY <1>0, <1>1, FS_Subset
  <2> QED
    BY <1>0, <1>1, <2>1 DEF UniqueIds, IntIds
<1>3. T = {f[r] : r \in S}
  <2>1. ASSUME NEW t \in T
        PROVE  \E r \in S : t = f[r]
    <3>1. t = y \/ (t \in J /\ t # x)
      BY DEF Of
    <3>2. t.portfolio = p
      BY <1>0 DEF Of
    <3>3. CASE t = y
      BY <1>1, <3>3
    <3>4. CASE t \in J /\ t # x
      BY <3>2, <3>4 DEF Of
    <3> QED
      BY <3>1, <3>3, <3>4
  <2>2. ASSUME NEW r \in S
        PROVE  f[r] \in T
    BY <1>0 DEF Of
  <2> HIDE DEF f, S, T
  <2> QED
    BY <2>1, <2>2
<1>4. \A r \in S : f[r].id = r.id /\ f[r] = IF r = x THEN y ELSE r
  BY <1>0
<1> HIDE DEF f, S, T
<1>5. Line(ByNumber(S), S, q)
  BY <1>0 DEF S
<1>6. \A r, s \in S : f[r] = f[s] => r = s
  BY <1>2, <1>4 DEF UniqueIds
<1>7. \A r, s \in S : <<r, s>> \in ByNumber(S) => <<f[r], f[s]>> \in ByNumber(T)
  <2> SUFFICES ASSUME NEW r \in S, NEW s \in S, <<r, s>> \in ByNumber(S)
               PROVE  <<f[r], f[s]>> \in ByNumber(T)
    OBVIOUS
  <2>1. f[r].id < f[s].id
    BY <1>4 DEF ByNumber
  <2>2. f[r] \in T /\ f[s] \in T
    BY <1>3
  <2> QED
    BY <2>1, <2>2 DEF ByNumber
<1>8. IsFiniteSet(T) /\ Line(ByNumber(T), T, m)
  <2>1. Moved(S, ByNumber(S), ByNumber(T), q, f, T)
    BY <1>2, <1>3, <1>5, <1>6, <1>7 DEF Moved
  <2> QED
    BY <2>1, LineMoves
<1>9. UniqueIds(T) /\ IntIds(T)
  BY <1>2, <1>3, <1>4 DEF UniqueIds, IntIds
<1>10. m = OrderBy(T, Older)
  BY <1>8, <1>9, OrderByNumber
<1>11. /\ q \in [1 .. Cardinality(S) -> S] /\ \E n \in DOMAIN q : q[n] = x
       /\ \A i, j \in DOMAIN q : q[i].id = q[j].id => i = j
  <2>1. /\ q \in [1 .. Cardinality(S) -> S]
        /\ \A i, j \in 1 .. Cardinality(S) : q[i] = q[j] => i = j
        /\ \A r \in S : \E i \in 1 .. Cardinality(S) : q[i] = r
    BY <1>5, Listing DEF Line
  <2> QED
    BY <1>1, <1>2, <2>1 DEF UniqueIds
<1>12. [n \in DOMAIN m |-> JobFrom(m[n])] = [n \in DOMAIN q |-> JobFrom(IF q[n] = x THEN y ELSE q[n])]
  <2>1. \A n \in DOMAIN q : m[n] = IF q[n] = x THEN y ELSE q[n]
    BY <1>4, <1>11 DEF Mapped
  <2>2. DOMAIN m = DOMAIN q
    BY DEF Mapped
  <2> HIDE DEF m
  <2> QED
    BY <2>1, <2>2
<1>13. LoadJobs((J \ {x}) \cup {y}, p) = [n \in DOMAIN m |-> JobFrom(m[n])]
  BY <1>10 DEF LoadJobs, T
<1> QED
  BY <1>11, <1>12, <1>13 DEF S, Edited
-----------------------------------------------------------------------------
(* Books: a portfolio per id, and no row that belongs to none; jobs and      *)
(* entries in the form the calls write them, finitely many of them.          *)
PortfolioRow(r) == r = [id |-> r.id, user |-> r.user, payload |-> r.payload]
JobRow(r) == r = [id |-> r.id, portfolio |-> r.portfolio, kind |-> r.kind, status |-> r.status]
Holds(r, X) == \E x \in X : r = EntryRow(r.portfolio, x)
Owned(rows) == \A r \in rows : r.portfolio \in IdsOf(portfolios)
PortfoliosOk ==
  /\ UniqueIds(portfolios) /\ Numbered(portfolios, writes)
  /\ \A r \in portfolios : PortfolioRow(r)
JobsOk ==
  /\ IsFiniteSet(background_jobs) /\ UniqueIds(background_jobs)
  /\ Numbered(background_jobs, writes) /\ \A r \in background_jobs : JobRow(r)
EntriesOk(rows, X) ==
  IsFiniteSet(rows) /\ UniqueIds(rows) /\ \A r \in rows : Holds(r, X)
LedgersOk ==
  /\ EntriesOk(cash_transactions, Moves) /\ EntriesOk(trade_transactions, Trades)
  /\ EntriesOk(valuation_snapshots, Valuations)
OwnersOk ==
  /\ Owned(portfolio_positions) /\ Owned(position_lots) /\ Owned(background_jobs)
  /\ Owned(cash_transactions) /\ Owned(trade_transactions) /\ Owned(valuation_snapshots)
  /\ Owned(portfolio_settings)
BooksInv == PortfoliosOk /\ JobsOk /\ LedgersOk /\ OwnersOk

(* What is true of books stays true while they are left alone.               *)
LEMMA BooksKept ==
  ASSUME BooksInv, UNCHANGED books, writes' \in Nat, writes <= writes', WritesOk
  PROVE  BooksInv'
<1>1. /\ portfolios' = portfolios /\ portfolio_positions' = portfolio_positions
      /\ position_lots' = position_lots /\ background_jobs' = background_jobs
      /\ cash_transactions' = cash_transactions /\ trade_transactions' = trade_transactions
      /\ portfolio_settings' = portfolio_settings /\ valuation_snapshots' = valuation_snapshots
  BY DEF books
<1>2. \A i \in 1 .. writes : i \in 1 .. writes'
  BY DEF WritesOk
<1>3. Numbered(portfolios, writes) /\ Numbered(background_jobs, writes)
  BY DEF BooksInv, PortfoliosOk, JobsOk
<1>4. Numbered(portfolios, writes') /\ Numbered(background_jobs, writes')
  BY <1>2, <1>3 DEF Numbered
<1>5. PortfoliosOk' /\ JobsOk'
  BY <1>1, <1>4 DEF BooksInv, PortfoliosOk, JobsOk, UniqueIds, PortfolioRow, JobRow
<1>6. LedgersOk' /\ OwnersOk'
  BY <1>1 DEF BooksInv, LedgersOk, OwnersOk, EntriesOk, UniqueIds, Holds, EntryRow, Sealed, Owned,
              IdsOf
<1> QED
  BY <1>5, <1>6 DEF BooksInv

(* The dictionary of portfolios, entry by entry.                             *)
LEMMA PortfolioEntries ==
  ASSUME NEW R, UniqueIds(R), NEW P, NEW L, NEW J
  PROVE  LET f == PortfoliosById(R, P, L, J)
         IN  /\ DOMAIN f = IdsOf(R) /\ IsDict(f)
             /\ \A r \in R : r.id \in DOMAIN f /\ f[r.id] = PortfolioFrom(r, P, L, J)
  BY TheWithId DEF IdsOf, PortfoliosById, WithId, IsDict

(* What a portfolio owns in two versions of a table, the same of all others. *)
Elsewhere(P, Q, k) == \A i : i # k => Of(P, i) = Of(Q, i)
LEMMA NowhereElse ==
  ASSUME NEW P, NEW k
  PROVE  Elsewhere(P, P, k)
  BY DEF Elsewhere

(* A portfolio that owns the same reads the same.                            *)
LEMMA SameParts ==
  ASSUME NEW r, NEW P, NEW Q, NEW L, NEW M, NEW J, NEW K, Of(P, r.id) = Of(Q, r.id),
         Of(L, r.id) = Of(M, r.id), Of(J, r.id) = Of(K, r.id)
  PROVE  PortfolioFrom(r, P, L, J) = PortfolioFrom(r, Q, M, K)
  BY DEF PortfolioFrom, LoadJobs

(* A row put, and what belongs to it, is an entry put in the dictionary.     *)
LEMMA PortfolioPut ==
  ASSUME NEW R, UniqueIds(R), NEW T, UniqueIds(T), NEW x, Puts(R, T, x),
         NEW P, NEW Q, Elsewhere(P, Q, x.id), NEW L, NEW M, Elsewhere(L, M, x.id),
         NEW J, NEW K, Elsewhere(J, K, x.id)
  PROVE  PortfoliosById(T, Q, M, K)
           = Memory!Put(PortfoliosById(R, P, L, J), x.id, PortfolioFrom(x, Q, M, K))
<1>0. x \in T /\ IdsOf(T) = IdsOf(R) \cup {x.id} /\ \A r \in T : r.id # x.id => r \in R
  BY DEF Puts
<1> DEFINE f == PortfoliosById(R, P, L, J)
           g == PortfoliosById(T, Q, M, K)
<1>1. /\ DOMAIN f = IdsOf(R) /\ \A r \in R : f[r.id] = PortfolioFrom(r, P, L, J)
  BY PortfolioEntries
<1>5. /\ DOMAIN g = IdsOf(T) /\ \A r \in T : g[r.id] = PortfolioFrom(r, Q, M, K)
      /\ IsDict(g)
  BY PortfolioEntries
<1> HIDE DEF f, g
<1>2. ASSUME NEW i \in DOMAIN f, i # x.id
      PROVE  g[i] = f[i]
  <2>1. PICK r \in T : r.id = i
    BY <1>0, <1>1 DEF IdsOf
  <2>2. r \in R
    BY <1>0, <1>2, <2>1
  <2>3. Of(P, i) = Of(Q, i) /\ Of(L, i) = Of(M, i) /\ Of(J, i) = Of(K, i)
    BY <1>2 DEF Elsewhere
  <2>4. PortfolioFrom(r, P, L, J) = PortfolioFrom(r, Q, M, K)
    BY <2>1, <2>3, SameParts
  <2> QED
    BY <1>1, <1>5, <2>1, <2>2, <2>4
<1>3. DOMAIN g = DOMAIN f \cup {x.id} /\ g[x.id] = PortfolioFrom(x, Q, M, K)
  BY <1>0, <1>1, <1>5
<1>4. g = Memory!Put(f, x.id, PortfolioFrom(x, Q, M, K))
  BY <1>2, <1>3, <1>5, PutIs
<1> QED
  BY <1>4 DEF f, g

(* What leaves some tables of the books alone leaves their dictionaries      *)
(* alone.                                                                    *)
LEMMA PortfoliosSame ==
  ASSUME UNCHANGED <<portfolios, portfolio_positions, position_lots, background_jobs>>
  PROVE  UNCHANGED DictPortfolios
  BY DEF DictPortfolios

(* All of the ledgers.                                                       *)
LEMMA LedgersSame ==
  ASSUME UNCHANGED Ledger
  PROVE  UNCHANGED <<DictMoves, DictTrades, DictSettings, DictValuations>>
<1>1. /\ cash_transactions' = cash_transactions /\ trade_transactions' = trade_transactions
      /\ portfolio_settings' = portfolio_settings /\ valuation_snapshots' = valuation_snapshots
  BY DEF Ledger
<1>2. DictMoves' = DictMoves /\ DictTrades' = DictTrades /\ DictValuations' = DictValuations
  BY <1>1 DEF DictMoves, DictTrades, DictValuations, OfPortfolios, Of, MoveFrom, TradeFrom,
              ValuationFrom
<1>3. DictSettings' = DictSettings
  BY <1>1 DEF DictSettings, SettingsOf
<1> QED
  BY <1>2, <1>3

(* Every write to one portfolio is a change of its entry.                    *)
LEMMA PortfolioChanged ==
  ASSUME BooksInv, NEW c, NEW x, Puts(portfolios, portfolios', x), UniqueIds(portfolios'),
         x.id \in IdsOf(portfolios),
         Elsewhere(portfolio_positions, portfolio_positions', x.id),
         Elsewhere(position_lots, position_lots', x.id),
         Elsewhere(background_jobs, background_jobs', x.id),
         Write(c, LoadedAfter(x.id)), UNCHANGED <<accounts, Ledger, market>>
  PROVE  Memory!ChangePortfolio(c, x.id,
           PortfolioFrom(x, portfolio_positions', position_lots', background_jobs'))
<1> DEFINE y == PortfolioFrom(x, portfolio_positions', position_lots', background_jobs')
<1>1. UniqueIds(portfolios)
  BY DEF BooksInv, PortfoliosOk
<1>2. LoadedAfter(x.id) = y
  <2>1. WithId(portfolios', x.id) = x
    BY TheWithId DEF WithId, Puts
  <2> QED
    BY <2>1 DEF LoadedAfter
<1> HIDE DEF y
<1>3. Memory!Write(c, y)
  BY <1>2, WriteMatches
<1>4. DictPortfolios' = Memory!Put(DictPortfolios, x.id, y)
  BY <1>1, PortfolioPut DEF DictPortfolios, y
<1>5. x.id \in DOMAIN DictPortfolios
  BY <1>1, PortfolioEntries DEF DictPortfolios
<1>6. /\ UNCHANGED Memory!accounts /\ UNCHANGED Memory!market
      /\ UNCHANGED <<DictMoves, DictTrades, DictSettings, DictValuations>>
  BY AccountsSame, MarketSame, LedgersSame
<1> QED
  BY <1>3, <1>4, <1>5, <1>6 DEF Memory!ChangePortfolio, y

(* The portfolio a call names.                                               *)
LEMMA Named ==
  ASSUME BooksInv, NEW p \in IdsOf(portfolios)
  PROVE  \E r \in portfolios :
           /\ r.id = p /\ WithId(portfolios, p) = r /\ PortfolioRow(r) /\ p \in DOMAIN DictPortfolios
           /\ Puts(portfolios, portfolios, r)
           /\ DictPortfolios[p]
                = PortfolioFrom(r, portfolio_positions, position_lots, background_jobs)
<1>1. UniqueIds(portfolios) /\ \A r \in portfolios : PortfolioRow(r)
  BY DEF BooksInv, PortfoliosOk
<1>2. PICK r \in portfolios : r.id = p
  BY DEF IdsOf
<1>3. WithId(portfolios, p) = r
  BY <1>1, <1>2, TheWithId DEF WithId
<1>4. /\ p \in DOMAIN DictPortfolios
      /\ DictPortfolios[p]
           = PortfolioFrom(r, portfolio_positions, position_lots, background_jobs)
  BY <1>1, <1>2, PortfolioEntries DEF DictPortfolios
<1>5. Puts(portfolios, portfolios, r)
  BY <1>2 DEF Puts, IdsOf
<1> QED
  BY <1>1, <1>2, <1>3, <1>4, <1>5

(* A position and a lot read as they were written.                           *)
Written == PositionSets \cup {x.positions : x \in NewPortfolios}
WrittenLots == LotSets \cup {x.lots : x \in NewPortfolios}
LEMMA PositionsRead ==
  ASSUME NEW P \in Written, NEW p
  PROVE  {PositionFrom(r) : r \in PositionRows(p, P)} = P
<1> DEFINE Row(x) == [portfolio |-> p, symbol |-> Hashed(x.symbol), payload |-> Sealed(x)]
<1>1. ASSUME NEW x \in P
      PROVE  PositionFrom(Row(x)) = x
  <2>1. /\ None \notin {x.quantity, x.cost, x.class}
        /\ x = [symbol |-> x.symbol, quantity |-> x.quantity, cost |-> x.cost, class |-> x.class]
    BY RepositoryInputs DEF Written
  <2>2. PositionFrom(Row(x)) = [x EXCEPT !.quantity = x.quantity, !.cost = x.cost, !.class = x.class]
    BY <2>1 DEF PositionFrom, Sealed, Float, Or
  <2> HIDE DEF Row
  <2> QED
    BY <2>1, <2>2
<1>2. PositionRows(p, P) = {Row(x) : x \in P}
  BY DEF PositionRows
<1> HIDE DEF Row
<1> QED
  BY <1>1, <1>2

(* A lot.                                                                    *)
LEMMA LotsRead ==
  ASSUME NEW L \in WrittenLots, NEW p
  PROVE  {LotFrom(r) : r \in LotRows(p, L)} = L
<1> DEFINE Row(x) == [id |-> x.id, portfolio |-> p, symbol |-> Hashed(x.symbol),
                      source |-> x.source, payload |-> Sealed(x)]
<1>1. ASSUME NEW x \in L
      PROVE  LotFrom(Row(x)) = x
  <2>1. /\ None \notin {x.left, x.source}
        /\ x = [id |-> x.id, symbol |-> x.symbol, left |-> x.left, at |-> x.at, source |-> x.source]
    BY RepositoryInputs DEF WrittenLots
  <2>2. LotFrom(Row(x)) = [id |-> x.id, symbol |-> x.symbol, left |-> x.left, at |-> x.at,
                           source |-> x.source]
    BY <2>1 DEF LotFrom, Sealed, Float, Or
  <2> HIDE DEF Row
  <2> QED
    BY <2>1, <2>2
<1>2. LotRows(p, L) = {Row(x) : x \in L}
  BY DEF LotRows
<1> HIDE DEF Row
<1> QED
  BY <1>1, <1>2

(* A portfolio read again after its positions, lots or cash changed.         *)
PositionsIn(P, i) == {PositionFrom(x) : x \in Of(P, i)}
LotsIn(L, i) == {LotFrom(x) : x \in Of(L, i)}
CashIn(r) == Float(r.payload.sealed.cash)
LEMMA Parts ==
  ASSUME NEW r, NEW P, NEW L, NEW J
  PROVE  PortfolioFrom(r, P, L, J)
           = [id |-> r.id, user |-> r.user, cash |-> CashIn(r), positions |-> PositionsIn(P, r.id),
              lots |-> LotsIn(L, r.id), jobs |-> LoadJobs(J, r.id)]
  BY DEF PortfolioFrom, CashIn, PositionsIn, LotsIn

(* Each of its parts alone.                                                  *)
LEMMA PartsChanged ==
  ASSUME NEW r, NEW P, NEW L, NEW J, NEW s, s.id = r.id, s.user = r.user, NEW Q, NEW M, NEW K
  PROVE  /\ PortfolioFrom(r, Q, L, J)
              = [PortfolioFrom(r, P, L, J) EXCEPT !.positions = PositionsIn(Q, r.id)]
         /\ PortfolioFrom(r, P, M, J)
              = [PortfolioFrom(r, P, L, J) EXCEPT !.lots = LotsIn(M, r.id)]
         /\ PortfolioFrom(s, P, L, J) = [PortfolioFrom(r, P, L, J) EXCEPT !.cash = CashIn(s)]
         /\ PortfolioFrom(r, P, L, K)
              = [PortfolioFrom(r, P, L, J) EXCEPT !.jobs = LoadJobs(K, r.id)]
         /\ PortfolioFrom(r, P, L, J).lots = LotsIn(L, r.id)
         /\ PortfolioFrom(r, P, L, J).jobs = LoadJobs(J, r.id)
  BY Parts

(* Its jobs.                                                                 *)
LEMMA JobsPart ==
  ASSUME NEW r, NEW P, NEW L, NEW J, NEW K, NEW d, d = PortfolioFrom(r, P, L, J), NEW l,
         l = LoadJobs(K, r.id)
  PROVE  PortfolioFrom(r, P, L, K) = [d EXCEPT !.jobs = l] /\ d.jobs = LoadJobs(J, r.id)
  BY PartsChanged
-----------------------------------------------------------------------------
(* What a write leaves true of the tables it leaves alone.                   *)
LEMMA NumberedOn ==
  ASSUME WritesOk, writes' = writes + 1, NEW R, Numbered(R, writes)
  PROVE  Numbered(R, writes') /\ writes + 1 \in 1 .. writes' /\ \A r \in R : r.id \in Int /\ r.id < writes + 1
<1>1. \A i \in 1 .. writes : i \in 1 .. writes' /\ i \in Int /\ i < writes + 1
  BY DEF WritesOk
<1>2. writes + 1 \in 1 .. writes'
  BY DEF WritesOk
<1> QED
  BY <1>1, <1>2 DEF Numbered

(* A write to portfolios, positions or lots.                                 *)
LEMMA HoldingsKept ==
  ASSUME BooksInv, WritesOk, writes' = writes + 1, UNCHANGED <<background_jobs, Ledger>>,
         PortfoliosOk', IdsOf(portfolios) \subseteq IdsOf(portfolios'),
         Owned(portfolio_positions)', Owned(position_lots)'
  PROVE  BooksInv'
<1>1. /\ cash_transactions' = cash_transactions /\ trade_transactions' = trade_transactions
      /\ portfolio_settings' = portfolio_settings /\ valuation_snapshots' = valuation_snapshots
      /\ background_jobs' = background_jobs
  BY DEF Ledger
<1>2. JobsOk'
  <2>1. Numbered(background_jobs, writes')
    BY NumberedOn DEF BooksInv, JobsOk
  <2> QED
    BY <1>1, <2>1 DEF BooksInv, JobsOk, UniqueIds, JobRow
<1>3. LedgersOk'
  BY <1>1 DEF BooksInv, LedgersOk, EntriesOk, UniqueIds, Holds, EntryRow, Sealed
<1>4. OwnersOk'
  BY <1>1 DEF BooksInv, OwnersOk, Owned
<1> QED
  BY <1>2, <1>3, <1>4 DEF BooksInv

(* Portfolios left alone.                                                    *)
LEMMA PortfoliosOn ==
  ASSUME BooksInv, WritesOk, writes' = writes + 1, UNCHANGED portfolios
  PROVE  PortfoliosOk' /\ IdsOf(portfolios) \subseteq IdsOf(portfolios')
<1>1. Numbered(portfolios, writes')
  BY NumberedOn DEF BooksInv, PortfoliosOk
<1> QED
  BY <1>1 DEF BooksInv, PortfoliosOk, UniqueIds, PortfolioRow

(* replace_positions.                                                        *)
LEMMA ReplacePositionsMatches ==
  ASSUME BooksInv, WritesOk, NEW p, NEW P \in PositionSets, ReplacePositions(p, P)
  PROVE  Memory!ReplacePositions(p, P) /\ BooksInv'
<1> DEFINE c == <<"replace_positions", p, P>>
           rows == PositionRows(p, P)
<1>1. /\ p \in IdsOf(portfolios)
      /\ portfolio_positions' = (portfolio_positions \ Of(portfolio_positions, p)) \cup rows
      /\ UNCHANGED <<portfolios, position_lots, background_jobs>>
      /\ Write(c, LoadedAfter(p)) /\ UNCHANGED <<accounts, Ledger, market>>
  BY DEF ReplacePositions, Exists
<1>2. PICK r \in portfolios :
        /\ r.id = p /\ Puts(portfolios, portfolios, r)
        /\ DictPortfolios[p]
             = PortfolioFrom(r, portfolio_positions, position_lots, background_jobs)
  BY <1>1, Named
<1>3. \A x \in rows : x.portfolio = p
  BY DEF PositionRows
<1>4. {PositionFrom(x) : x \in rows} = P
  BY PositionsRead DEF Written
<1> HIDE DEF rows
<1>5. Of(portfolio_positions', p) = rows /\ Elsewhere(portfolio_positions, portfolio_positions', p)
  BY <1>1, <1>3 DEF Of, Elsewhere
<1>6. PortfolioFrom(r, portfolio_positions', position_lots', background_jobs')
        = [DictPortfolios[p] EXCEPT !.positions = P]
  <2>1. PositionsIn(portfolio_positions', p) = P
    BY <1>4, <1>5 DEF PositionsIn
  <2> QED
    BY <1>1, <1>2, <2>1, PartsChanged
<1>7. Memory!ChangePortfolio(c, p,
        PortfolioFrom(r, portfolio_positions', position_lots', background_jobs'))
  <2>1. UniqueIds(portfolios') /\ Puts(portfolios, portfolios', r)
    BY <1>1, <1>2 DEF BooksInv, PortfoliosOk
  <2>2. /\ Elsewhere(position_lots, position_lots', p)
        /\ Elsewhere(background_jobs, background_jobs', p)
    BY <1>1, NowhereElse
  <2> QED
    BY <1>1, <1>2, <1>5, <2>1, <2>2, PortfolioChanged
<1>8. BooksInv'
  <2>1. writes' = writes + 1
    BY <1>1 DEF Write
  <2>2. Owned(portfolio_positions)' /\ Owned(position_lots)'
    BY <1>1, <1>3 DEF BooksInv, OwnersOk, Owned
  <2> QED
    BY <1>1, <2>1, <2>2, PortfoliosOn, HoldingsKept
<1> QED
  BY <1>6, <1>7, <1>8 DEF Memory!ReplacePositions

(* add_lots and replace_lots.                                                *)
LEMMA SetLotsMatches ==
  ASSUME BooksInv, WritesOk, NEW c, NEW p, NEW rows, NEW L, SetLots(c, p, rows),
         Elsewhere(position_lots, rows, p), {LotFrom(x) : x \in Of(rows, p)} = L
  PROVE  /\ Memory!ChangePortfolio(c, p, [DictPortfolios[p] EXCEPT !.lots = L])
         /\ BooksInv'
<1>1. /\ p \in IdsOf(portfolios) /\ position_lots' = rows
      /\ UNCHANGED <<portfolios, portfolio_positions, background_jobs>>
      /\ Write(c, LoadedAfter(p)) /\ UNCHANGED <<accounts, Ledger, market>>
  BY DEF SetLots, Exists
<1>2. PICK r \in portfolios :
        /\ r.id = p /\ Puts(portfolios, portfolios, r)
        /\ DictPortfolios[p]
             = PortfolioFrom(r, portfolio_positions, position_lots, background_jobs)
  BY <1>1, Named
<1>6. PortfolioFrom(r, portfolio_positions', position_lots', background_jobs')
        = [DictPortfolios[p] EXCEPT !.lots = L]
  <2>1. LotsIn(position_lots', p) = L
    BY <1>1 DEF LotsIn
  <2> QED
    BY <1>1, <1>2, <2>1, PartsChanged
<1>7. Memory!ChangePortfolio(c, p,
        PortfolioFrom(r, portfolio_positions', position_lots', background_jobs'))
  <2>1. UniqueIds(portfolios') /\ Puts(portfolios, portfolios', r)
    BY <1>1, <1>2 DEF BooksInv, PortfoliosOk
  <2>2. /\ Elsewhere(portfolio_positions, portfolio_positions', p)
        /\ Elsewhere(background_jobs, background_jobs', p)
        /\ Elsewhere(position_lots, position_lots', p)
    BY <1>1, NowhereElse
  <2> QED
    BY <1>1, <1>2, <2>1, <2>2, PortfolioChanged
<1>8. BooksInv'
  <2>1. writes' = writes + 1
    BY <1>1 DEF Write
  <2>2. Owned(position_lots)'
    <3>1. ASSUME NEW x \in rows
          PROVE  x.portfolio \in IdsOf(portfolios)
      <4>1. CASE x.portfolio = p
        BY <1>1, <4>1
      <4>2. CASE x.portfolio # p
        <5>1. x \in Of(position_lots, x.portfolio)
          BY <4>2 DEF Elsewhere, Of
        <5> QED
          BY <5>1 DEF Of, BooksInv, OwnersOk, Owned
      <4> QED
        BY <4>1, <4>2
    <3> QED
      BY <1>1, <3>1 DEF Owned
  <2>3. Owned(portfolio_positions)'
    BY <1>1 DEF BooksInv, OwnersOk, Owned
  <2> QED
    BY <1>1, <2>1, <2>2, <2>3, PortfoliosOn, HoldingsKept
<1> QED
  BY <1>6, <1>7, <1>8

(* add_lots.                                                                 *)
LEMMA AddLotsMatches ==
  ASSUME BooksInv, WritesOk, NEW p, NEW L \in LotSets, AddLots(p, L)
  PROVE  Memory!AddLots(p, L) /\ BooksInv'
<1> DEFINE c == <<"add_lots", p, L>>
           new == LotRows(p, L)
           rows == position_lots \cup new
           old == {LotFrom(x) : x \in Of(position_lots, p)}
<1>1. SetLots(c, p, rows) /\ p \in IdsOf(portfolios)
  BY DEF AddLots, SetLots, Exists
<1>2. \A x \in new : x.portfolio = p
  BY DEF LotRows
<1>3. {LotFrom(x) : x \in new} = L
  BY LotsRead DEF WrittenLots
<1> HIDE DEF new
<1>4. Of(rows, p) = Of(position_lots, p) \cup new /\ Elsewhere(position_lots, rows, p)
  BY <1>2 DEF Of, Elsewhere
<1>5. {LotFrom(x) : x \in Of(rows, p)} = old \cup L
  BY <1>3, <1>4
<1>6. DictPortfolios[p].lots = old
  BY <1>1, Named, PartsChanged DEF LotsIn
<1> HIDE DEF rows, c, old
<1>7. /\ Memory!ChangePortfolio(c, p, [DictPortfolios[p] EXCEPT !.lots = old \cup L])
      /\ BooksInv'
  BY <1>1, <1>4, <1>5, SetLotsMatches
<1>8. [DictPortfolios[p] EXCEPT !.lots = @ \cup L] = [DictPortfolios[p] EXCEPT !.lots = old \cup L]
  BY <1>6
<1> QED
  BY <1>7, <1>8 DEF Memory!AddLots, c

(* replace_lots.                                                             *)
LEMMA ReplaceLotsMatches ==
  ASSUME BooksInv, WritesOk, NEW p, NEW L \in LotSets, ReplaceLots(p, L)
  PROVE  Memory!ReplaceLots(p, L) /\ BooksInv'
<1> DEFINE c == <<"replace_lots", p, L>>
           new == LotRows(p, L)
           rows == (position_lots \ Of(position_lots, p)) \cup new
<1>1. SetLots(c, p, rows)
  BY DEF ReplaceLots
<1>2. \A x \in new : x.portfolio = p
  BY DEF LotRows
<1>3. {LotFrom(x) : x \in new} = L
  BY LotsRead DEF WrittenLots
<1> HIDE DEF new
<1>4. Of(rows, p) = new /\ Elsewhere(position_lots, rows, p)
  BY <1>2 DEF Of, Elsewhere
<1> HIDE DEF rows, c
<1>7. /\ Memory!ChangePortfolio(c, p, [DictPortfolios[p] EXCEPT !.lots = L])
      /\ BooksInv'
  BY <1>1, <1>3, <1>4, SetLotsMatches
<1> QED
  BY <1>7 DEF Memory!ReplaceLots, c

(* update_cash.                                                              *)
LEMMA UpdateCashMatches ==
  ASSUME BooksInv, WritesOk, NEW p, NEW n \in Amounts, UpdateCash(p, n)
  PROVE  Memory!UpdateCash(p, n) /\ BooksInv'
<1> DEFINE c == <<"update_cash", p, n>>
           row == WithId(portfolios, p)
           new == [row EXCEPT !.payload = Sealed([cash |-> n])]
<1>1. /\ p \in IdsOf(portfolios) /\ portfolios' = (portfolios \ {row}) \cup {new}
      /\ UNCHANGED <<portfolio_positions, position_lots, background_jobs>>
      /\ Write(c, LoadedAfter(p)) /\ UNCHANGED <<accounts, Ledger, market>>
  BY DEF UpdateCash, Exists
<1>2. PICK r \in portfolios :
        /\ r.id = p /\ row = r /\ PortfolioRow(r)
        /\ DictPortfolios[p]
             = PortfolioFrom(r, portfolio_positions, position_lots, background_jobs)
  BY <1>1, Named
<1>3. /\ new.id = p /\ new.user = r.user /\ new.payload = Sealed([cash |-> n]) /\ PortfolioRow(new)
  BY <1>2 DEF PortfolioRow
<1> HIDE DEF new
<1>4. PortfolioFrom(new, portfolio_positions', position_lots', background_jobs')
        = [DictPortfolios[p] EXCEPT !.cash = n]
  <2>1. CashIn(new) = n
    BY <1>3, RepositoryInputs DEF Sealed, Float, CashIn
  <2> QED
    BY <1>1, <1>2, <1>3, <2>1, PartsChanged
<1>5. UniqueIds(portfolios) /\ Numbered(portfolios, writes) /\ \A s \in portfolios : PortfolioRow(s)
  BY DEF BooksInv, PortfoliosOk
<1>6. /\ UniqueIds(portfolios') /\ IdsOf(portfolios') = IdsOf(portfolios)
      /\ Puts(portfolios, portfolios', new)
  <2>1. UniqueIds(portfolios')
    BY <1>1, <1>2, <1>3, <1>5 DEF UniqueIds
  <2>2. \A s \in portfolios : \E t \in portfolios' : t.id = s.id
    BY <1>1, <1>2, <1>3
  <2>3. \A t \in portfolios' : \E s \in portfolios : s.id = t.id
    BY <1>1, <1>2, <1>3
  <2>4. IdsOf(portfolios') = IdsOf(portfolios)
    BY <2>2, <2>3, SameIds
  <2>5. new \in portfolios' /\ \A t \in portfolios' : t.id # new.id => t \in portfolios
    BY <1>1
  <2>6. IdsOf(portfolios) = IdsOf(portfolios) \cup {new.id}
    BY <1>1, <1>3
  <2> QED
    BY <2>1, <2>4, <2>5, <2>6 DEF Puts
<1>7. Memory!ChangePortfolio(c, p,
        PortfolioFrom(new, portfolio_positions', position_lots', background_jobs'))
  <2>2. /\ Elsewhere(portfolio_positions, portfolio_positions', p)
        /\ Elsewhere(background_jobs, background_jobs', p)
        /\ Elsewhere(position_lots, position_lots', p)
    BY <1>1, NowhereElse
  <2> QED
    BY <1>1, <1>3, <1>6, <2>2, PortfolioChanged
<1>8. BooksInv'
  <2>1. writes' = writes + 1
    BY <1>1 DEF Write
  <2>2. Numbered(portfolios, writes')
    BY <1>5, <2>1, NumberedOn
  <2>3. PortfoliosOk'
    BY <1>1, <1>2, <1>3, <1>5, <1>6, <2>2 DEF PortfoliosOk, Numbered
  <2>4. Owned(portfolio_positions)' /\ Owned(position_lots)'
    BY <1>1, <1>6 DEF BooksInv, OwnersOk, Owned
  <2> QED
    BY <1>1, <1>6, <2>1, <2>3, <2>4, HoldingsKept
<1> QED
  BY <1>4, <1>7, <1>8 DEF Memory!UpdateCash

(* get, list_portfolios and list_lots.                                       *)
LEMMA GetMatches ==
  ASSUME BooksInv, NEW p, Get(p)
  PROVE  Memory!Get(p)
<1> DEFINE D == DictPortfolios
           From(r) == PortfolioFrom(r, portfolio_positions, position_lots, background_jobs)
           found == {x \in portfolios : x.id = p}
<1>1. Memory!Read(<<"get", p>>, OneOrNone({From(r) : r \in found}))
  BY ReadMatches DEF Get, Loaded, PortfoliosWhere
<1>2. UniqueIds(portfolios)
  BY DEF BooksInv, PortfoliosOk
<1>3. DOMAIN D = IdsOf(portfolios)
  BY <1>2, PortfolioEntries DEF DictPortfolios
<1>4. OneOrNone({From(r) : r \in found}) = Memory!Lookup(D, p)
  <2>1. CASE p \in IdsOf(portfolios)
    <3>1. PICK r \in portfolios : r.id = p /\ D[p] = From(r)
      BY <2>1, Named
    <3> HIDE DEF From, D
    <3>2. found = {r}
      BY <1>2, <3>1 DEF UniqueIds
    <3>3. {From(x) : x \in found} = {D[p]}
      BY <3>1, <3>2
    <3> QED
      BY <1>3, <2>1, <3>3, TheOnly DEF Memory!Lookup
  <2>2. CASE p \notin IdsOf(portfolios)
    <3>1. found = {}
      BY <2>2 DEF IdsOf
    <3> HIDE DEF From, D
    <3> QED
      BY <1>3, <2>2, <3>1 DEF Memory!Lookup, OneOrNone
  <2> QED
    BY <2>1, <2>2
<1> QED
  BY <1>1, <1>4 DEF Memory!Get

(* list_portfolios.                                                          *)
LEMMA ListPortfoliosMatches ==
  ASSUME BooksInv, NEW u, ListPortfolios(u)
  PROVE  Memory!ListPortfolios(u)
<1> DEFINE D == DictPortfolios
           From(r) == PortfolioFrom(r, portfolio_positions, position_lots, background_jobs)
           rows == {x \in portfolios : x.user = u}
           ids == {q \in DOMAIN D : D[q].user = u}
<1>1. Memory!Read(<<"list_portfolios", u>>, {From(r) : r \in rows})
  BY ReadMatches DEF ListPortfolios, PortfoliosWhere
<1>2. /\ DOMAIN D = IdsOf(portfolios)
      /\ \A r \in portfolios : r.id \in DOMAIN D /\ D[r.id] = From(r)
  BY PortfolioEntries DEF DictPortfolios, BooksInv, PortfoliosOk
<1>3. \A r : From(r).user = r.user
  BY DEF PortfolioFrom
<1> HIDE DEF D, From
<1>4. {D[q] : q \in ids} = {From(r) : r \in rows}
  <2>1. ASSUME NEW q \in ids
        PROVE  \E r \in rows : D[q] = From(r)
    <3>1. PICK r \in portfolios : r.id = q
      BY <1>2 DEF IdsOf
    <3> QED
      BY <1>2, <1>3, <3>1
  <2>2. ASSUME NEW r \in rows
        PROVE  r.id \in ids /\ D[r.id] = From(r)
    BY <1>2, <1>3
  <2> HIDE DEF ids, rows
  <2> QED
    BY <2>1, <2>2
<1> QED
  BY <1>1, <1>4 DEF Memory!ListPortfolios, D

(* list_lots.                                                                *)
LEMMA ListLotsMatches ==
  ASSUME BooksInv, NEW p, ListLots(p)
  PROVE  Memory!ListLots(p)
<1> DEFINE a == {LotFrom(r) : r \in Of(position_lots, p)}
<1>1. p \in IdsOf(portfolios) /\ Read(<<"list_lots", p>>, a)
  BY DEF ListLots, Exists
<1>2. p \in DOMAIN DictPortfolios /\ DictPortfolios[p].lots = a
  BY <1>1, Named, PartsChanged DEF LotsIn
<1> HIDE DEF a
<1> QED
  BY <1>1, <1>2, ReadMatches DEF Memory!ListLots

(* create: the portfolio has the positions and lots given, and no jobs.      *)
LEMMA NoJobs ==
  ASSUME NEW J, NEW p, Of(J, p) = {}
  PROVE  LoadJobs(J, p) = <<>>
<1> DEFINE q == OrderBy(Of(J, p), Older)
<1>1. DOMAIN q = {}
  <2>1. IsFiniteSet(Of(J, p)) /\ UniqueIds(Of(J, p)) /\ IntIds(Of(J, p))
    BY FS_EmptySet DEF UniqueIds, IntIds
  <2>2. Cardinality(Of(J, p)) = 0
    BY FS_EmptySet
  <2>3. q \in [1 .. 0 -> Of(J, p)]
    BY <2>1, <2>2, OrderByNumber, Listing DEF Line
  <2> QED
    BY <2>3
<1> HIDE DEF q
<1>2. [n \in DOMAIN q |-> JobFrom(q[n])] = <<>>
  BY <1>1
<1> QED
  BY <1>2 DEF LoadJobs, q

(* create.                                                                   *)
LEMMA CreateMatches ==
  ASSUME AccountsInv, BooksInv, WritesOk, NEW u \in IdsOf(users), NEW x \in NewPortfolios,
         Create(u, x.cash, x.positions, x.lots)
  PROVE  Memory!Create(u, x.cash, x.positions, x.lots) /\ BooksInv'
<1> DEFINE row == [id |-> New, user |-> u, payload |-> Sealed([cash |-> x.cash])]
           c == <<"create", u, x.cash, x.positions, x.lots>>
           held == PositionRows(New, x.positions)
           lots == LotRows(New, x.lots)
           y == [id |-> New, user |-> u, cash |-> x.cash, positions |-> x.positions,
                 lots |-> x.lots, jobs |-> <<>>]
<1>1. /\ portfolios' = portfolios \cup {row}
      /\ portfolio_positions' = portfolio_positions \cup held
      /\ position_lots' = position_lots \cup lots
      /\ background_jobs' = background_jobs /\ Write(c, LoadedAfter(New))
      /\ UNCHANGED <<accounts, Ledger, market>>
  BY DEF Create
<1>2. /\ row.id = New /\ row.user = u /\ CashIn(row) = x.cash /\ PortfolioRow(row)
  BY RepositoryInputs DEF CashIn, Float, Sealed, PortfolioRow
<1>3. /\ UniqueIds(portfolios) /\ Numbered(portfolios, writes) /\ (\A s \in portfolios : PortfolioRow(s))
      /\ Owned(portfolio_positions) /\ Owned(position_lots) /\ Owned(background_jobs)
  BY DEF BooksInv, PortfoliosOk, OwnersOk
<1>4. /\ writes' = New /\ Numbered(portfolios, New) /\ New \in 1 .. New
      /\ \A r \in portfolios : r.id # New
  BY <1>1, <1>3, NumberedOn DEF Write, New
<1>5. /\ (\A r \in held : r.portfolio = New) /\ (\A r \in lots : r.portfolio = New)
      /\ {PositionFrom(r) : r \in held} = x.positions /\ {LotFrom(r) : r \in lots} = x.lots
  <2>1. x.positions \in Written /\ x.lots \in WrittenLots
    BY DEF Written, WrittenLots
  <2>2. (\A r \in held : r.portfolio = New) /\ (\A r \in lots : r.portfolio = New)
    BY DEF PositionRows, LotRows
  <2> QED
    BY <2>1, <2>2, PositionsRead, LotsRead
<1> HIDE DEF row, held, lots, y
<1>6. New \notin IdsOf(portfolios)
  BY <1>4 DEF IdsOf
<1>7. /\ Of(portfolio_positions', New) = held /\ Of(position_lots', New) = lots
      /\ Of(background_jobs', New) = {}
  BY <1>1, <1>3, <1>5, <1>6 DEF Of, Owned
<1>8. /\ Elsewhere(portfolio_positions, portfolio_positions', New)
      /\ Elsewhere(position_lots, position_lots', New)
      /\ Elsewhere(background_jobs, background_jobs', New)
  BY <1>1, <1>5 DEF Elsewhere, Of
<1>9. PortfolioFrom(row, portfolio_positions', position_lots', background_jobs') = y
  <2>1. LoadJobs(background_jobs', New) = <<>>
    BY <1>7, NoJobs
  <2>2. /\ PositionsIn(portfolio_positions', New) = x.positions
        /\ LotsIn(position_lots', New) = x.lots
    BY <1>5, <1>7 DEF PositionsIn, LotsIn
  <2> QED
    BY <1>2, <2>1, <2>2, Parts DEF y
<1>10. UniqueIds(portfolios') /\ Puts(portfolios, portfolios', row)
  <2>1. UniqueIds(portfolios')
    BY <1>1, <1>2, <1>3, <1>4 DEF UniqueIds
  <2>2. IdsOf(portfolios') = IdsOf(portfolios) \cup {row.id}
    BY <1>1 DEF IdsOf
  <2> QED
    BY <1>1, <2>1, <2>2 DEF Puts
<1>11. DictPortfolios' = Memory!Put(DictPortfolios, New, y)
  BY <1>2, <1>3, <1>8, <1>9, <1>10, PortfolioPut DEF DictPortfolios
<1>12. LoadedAfter(New) = y
  <2>1. row \in portfolios'
    BY <1>1
  <2>2. WithId(portfolios', New) = row
    BY <1>2, <1>10, <2>1, TheWithId DEF WithId
  <2> QED
    BY <1>9, <2>2 DEF LoadedAfter
<1>13. Memory!Write(c, y)
  BY <1>1, <1>12, WriteMatches
<1>14. u \in DOMAIN DictUsers
  BY UsersEntries DEF DictUsers, AccountsInv, UsersOk
<1>15. /\ UNCHANGED Memory!accounts /\ UNCHANGED Memory!market
       /\ UNCHANGED <<DictMoves, DictTrades, DictSettings, DictValuations>>
  BY <1>1, AccountsSame, MarketSame, LedgersSame
<1>16. BooksInv'
  <2>1. PortfoliosOk'
    BY <1>1, <1>2, <1>3, <1>4, <1>10 DEF PortfoliosOk, Numbered
  <2>2. IdsOf(portfolios) \subseteq IdsOf(portfolios') /\ New \in IdsOf(portfolios')
    BY <1>1, <1>2 DEF IdsOf
  <2>3. Owned(portfolio_positions)' /\ Owned(position_lots)'
    BY <1>1, <1>3, <1>5, <2>2 DEF Owned
  <2>4. writes' = writes + 1
    BY <1>4 DEF New
  <2> QED
    BY <1>1, <2>1, <2>2, <2>3, <2>4, HoldingsKept
<1>17. Memory!New = New
  BY DEF New, Memory!New
<1> QED
  BY <1>11, <1>13, <1>14, <1>15, <1>16, <1>17 DEF Memory!Create, y

(* What a write to the jobs leaves true.                                     *)
LEMMA JobsKept ==
  ASSUME BooksInv, WritesOk, writes' = writes + 1,
         UNCHANGED <<portfolios, portfolio_positions, position_lots, Ledger>>,
         JobsOk', Owned(background_jobs)'
  PROVE  BooksInv'
<1>1. /\ cash_transactions' = cash_transactions /\ trade_transactions' = trade_transactions
      /\ portfolio_settings' = portfolio_settings /\ valuation_snapshots' = valuation_snapshots
      /\ portfolios' = portfolios /\ portfolio_positions' = portfolio_positions
      /\ position_lots' = position_lots
  BY DEF Ledger
<1>2. PortfoliosOk'
  BY <1>1, PortfoliosOn
<1>3. LedgersOk'
  BY <1>1 DEF BooksInv, LedgersOk, EntriesOk, UniqueIds, Holds, EntryRow, Sealed
<1>4. OwnersOk'
  BY <1>1 DEF BooksInv, OwnersOk, Owned
<1> QED
  BY <1>2, <1>3, <1>4 DEF BooksInv

(* enqueue_background_job.                                                   *)
LEMMA EnqueueMatches ==
  ASSUME BooksInv, WritesOk, NEW p, NEW kind, EnqueueBackgroundJob(p, kind)
  PROVE  Memory!EnqueueBackgroundJob(p, kind) /\ BooksInv'
<1> DEFINE row == [id |-> New, portfolio |-> p, kind |-> kind, status |-> "pending"]
           c == <<"enqueue_background_job", p, kind>>
           job == [id |-> New, kind |-> kind, status |-> "pending"]
           D == DictPortfolios
<1>1. /\ p \in IdsOf(portfolios) /\ Write(c, JobFrom(row))
      /\ background_jobs' = background_jobs \cup {row}
      /\ UNCHANGED <<portfolios, portfolio_positions, position_lots, accounts, Ledger, market>>
  BY DEF EnqueueBackgroundJob, Exists
<1>2. row.id = New /\ row.portfolio = p /\ JobFrom(row) = job /\ JobRow(row)
  BY DEF JobFrom, JobRow
<1> HIDE DEF row, c
<1>3. /\ IsFiniteSet(background_jobs) /\ UniqueIds(background_jobs)
      /\ Numbered(background_jobs, writes) /\ \A r \in background_jobs : JobRow(r)
  BY DEF BooksInv, JobsOk
<1>4. /\ writes' = New /\ New \in Int /\ New \in 1 .. New /\ Numbered(background_jobs, New)
      /\ \A r \in background_jobs : r.id \in Int /\ r.id < New
  BY <1>1, <1>3, NumberedOn DEF Write, New
<1>5. PICK r \in portfolios :
        /\ r.id = p /\ Puts(portfolios, portfolios, r) /\ p \in DOMAIN D
        /\ D[p] = PortfolioFrom(r, portfolio_positions, position_lots, background_jobs)
  BY <1>1, Named
<1>6. LoadJobs(background_jobs', p) = Append(LoadJobs(background_jobs, p), job)
  BY <1>1, <1>2, <1>3, <1>4, JobAppended DEF IntIds
<1>7. Elsewhere(background_jobs, background_jobs', p)
  BY <1>1, <1>2 DEF Elsewhere, Of
<1> DEFINE y == [D[p] EXCEPT !.jobs = Append(D[p].jobs, job)]
<1>8. y = PortfolioFrom(r, portfolio_positions', position_lots', background_jobs')
  <2>1. D[p].jobs = LoadJobs(background_jobs, p)
    BY <1>5, PartsChanged
  <2>2. y = [D[p] EXCEPT !.jobs = LoadJobs(background_jobs', p)]
    BY <1>6, <2>1
  <2>3. PortfolioFrom(r, portfolio_positions, position_lots, background_jobs')
          = [D[p] EXCEPT !.jobs = LoadJobs(background_jobs', p)]
    BY <1>5, JobsPart
  <2> HIDE DEF y, D
  <2> QED
    BY <1>1, <2>2, <2>3
<1>9. D' = Memory!Put(D, p, y)
  <2>1. /\ Elsewhere(portfolio_positions, portfolio_positions', p)
        /\ Elsewhere(position_lots, position_lots', p)
    BY <1>1, NowhereElse
  <2>2. UniqueIds(portfolios) /\ UniqueIds(portfolios') /\ Puts(portfolios, portfolios', r)
    BY <1>1, <1>5 DEF BooksInv, PortfoliosOk
  <2> HIDE DEF y
  <2> QED
    BY <1>5, <1>7, <1>8, <2>1, <2>2, PortfolioPut DEF DictPortfolios
<1>10. Memory!Put(D, p, y) = [D EXCEPT ![p].jobs = Append(@, job)]
  <2>1. D = [i \in DOMAIN D |-> D[i]]
    BY PortfolioEntries DEF DictPortfolios, BooksInv, PortfoliosOk, IsDict
  <2>2. DOMAIN D \cup {p} = DOMAIN D
    BY <1>5
  <2> HIDE DEF D, job
  <2>3. [D EXCEPT ![p].jobs = Append(@, job)] = [D EXCEPT ![p] = y]
    OBVIOUS
  <2> HIDE DEF y
  <2>4. [D EXCEPT ![p] = y] = [i \in DOMAIN D |-> IF i = p THEN y ELSE D[i]]
    BY <2>1
  <2> QED
    BY <2>2, <2>3, <2>4 DEF Memory!Put
<1>11. Memory!Write(c, job)
  BY <1>1, <1>2, WriteMatches
<1>12. /\ UNCHANGED Memory!accounts /\ UNCHANGED Memory!market
       /\ UNCHANGED <<DictMoves, DictTrades, DictSettings, DictValuations>>
  BY <1>1, AccountsSame, MarketSame, LedgersSame
<1>13. BooksInv'
  <2>1. UniqueIds(background_jobs')
    <3>1. \A r1 \in background_jobs : r1.id # New
      BY <1>4
    <3> QED
      BY <1>1, <1>2, <1>3, <3>1 DEF UniqueIds
  <2>2. IsFiniteSet(background_jobs')
    BY <1>1, <1>3, FS_AddElement
  <2>3. JobsOk'
    BY <1>1, <1>2, <1>3, <1>4, <2>1, <2>2 DEF JobsOk, Numbered
  <2>4. Owned(background_jobs)'
    BY <1>1, <1>2 DEF BooksInv, OwnersOk, Owned
  <2>5. writes' = writes + 1
    BY <1>4 DEF New
  <2> QED
    BY <1>1, <2>3, <2>4, <2>5, JobsKept
<1>14. Memory!New = New
  BY DEF New, Memory!New
<1> QED
  BY <1>5, <1>9, <1>10, <1>11, <1>12, <1>13, <1>14 DEF Memory!EnqueueBackgroundJob, c

(* complete_background_job.                                                  *)
LEMMA CompleteMatches ==
  ASSUME BooksInv, WritesOk, NEW p, NEW i, NEW s, CompleteBackgroundJob(p, i, s)
  PROVE  Memory!CompleteBackgroundJob(p, i, s) /\ (UNCHANGED books \/ BooksInv')
<1> DEFINE c == <<"complete_background_job", p, i, s>>
           mine == Of(background_jobs, p)
           row == The({r \in mine : r.id = i})
           D == DictPortfolios
           jobs == D[p].jobs
<1>0. /\ IsFiniteSet(background_jobs) /\ UniqueIds(background_jobs) /\ IntIds(background_jobs)
      /\ Numbered(background_jobs, writes) /\ (\A r \in background_jobs : JobRow(r))
      /\ \A r \in mine : r \in background_jobs /\ r.portfolio = p
  <2>1. \A r \in background_jobs : r.id \in Int
    BY DEF BooksInv, JobsOk, Numbered
  <2> QED
    BY <2>1 DEF BooksInv, JobsOk, IntIds, Of
<1>a. p \in IdsOf(portfolios)
  BY DEF CompleteBackgroundJob, Exists
<1>b. PICK t \in portfolios :
        /\ t.id = p /\ Puts(portfolios, portfolios, t) /\ p \in DOMAIN D
        /\ D[p] = PortfolioFrom(t, portfolio_positions, position_lots, background_jobs)
  BY <1>a, Named
<1>c. jobs = LoadJobs(background_jobs, p)
  BY <1>b, PartsChanged
<1> DEFINE q == OrderBy(mine, Older)
<1>d. /\ Line(ByNumber(mine), mine, q) /\ q \in [1 .. Cardinality(mine) -> mine]
      /\ \A r \in mine : \E n \in DOMAIN q : q[n] = r
  <2>1. IsFiniteSet(mine) /\ UniqueIds(mine) /\ IntIds(mine)
    <3>1. IsFiniteSet(mine)
      BY <1>0, FS_Subset
    <3> QED
      BY <1>0, <3>1 DEF UniqueIds, IntIds
  <2>2. Line(ByNumber(mine), mine, q)
    BY <2>1, OrderByNumber
  <2> HIDE DEF q, mine
  <2>3. /\ q \in [1 .. Cardinality(mine) -> mine]
        /\ \A r \in mine : \E n \in 1 .. Cardinality(mine) : q[n] = r
    BY <2>2, Listing DEF Line
  <2> QED
    BY <2>2, <2>3
<1>e. jobs = [n \in DOMAIN q |-> JobFrom(q[n])]
  BY <1>c DEF LoadJobs
<1> HIDE DEF q, mine, jobs, D, row
<1>f. DOMAIN jobs = DOMAIN q /\ \A n \in DOMAIN q : jobs[n].id = q[n].id /\ jobs[n] = JobFrom(q[n])
  BY <1>e DEF JobFrom
<1>1. CASE (\A r \in mine : r.id # i) /\ Refuse(c, "KeyError")
  <2>1. \A n \in DOMAIN jobs : jobs[n].id # i
    BY <1>1, <1>d, <1>f
  <2>2. Memory!Refuse(c, Memory!Raised("KeyError"))
    BY <1>1, RefusalMatches
  <2>3. UNCHANGED books
    BY <1>1 DEF Refuse, Read
  <2> QED
    BY <1>b, <2>1, <2>2, <2>3 DEF Memory!CompleteBackgroundJob, D, jobs
<1>2. CASE /\ \E r \in mine : r.id = i
           /\ Write(c, JobFrom([row EXCEPT !.status = s]))
           /\ background_jobs' = (background_jobs \ {row}) \cup {[row EXCEPT !.status = s]}
           /\ UNCHANGED <<portfolios, portfolio_positions, position_lots, accounts, Ledger, market>>
  <2>1. PICK x \in mine : x.id = i
    BY <1>2
  <2>2. row = x
    <3>1. {r \in mine : r.id = i} = {x}
      BY <1>0, <2>1 DEF UniqueIds
    <3> QED
      BY <3>1, TheOnly DEF row
  <2> DEFINE y == [x EXCEPT !.status = s]
  <2>3. /\ x \in background_jobs /\ x.portfolio = p /\ JobRow(x) /\ y.id = x.id
        /\ y.portfolio = x.portfolio /\ JobRow(y) /\ JobFrom(y) = [JobFrom(x) EXCEPT !.status = s]
    BY <1>0 DEF JobRow, JobFrom
  <2>4. background_jobs' = (background_jobs \ {x}) \cup {y}
    BY <1>2, <2>2
  <2>5. Write(c, JobFrom(y))
    BY <1>2, <2>2
  <2> HIDE DEF y
  <2>6. /\ \E n \in DOMAIN q : q[n] = x
        /\ \A n, m \in DOMAIN q : q[n].id = q[m].id => n = m
        /\ LoadJobs(background_jobs', p) = [n \in DOMAIN q |-> JobFrom(IF q[n] = x THEN y ELSE q[n])]
    <3>1. Line(ByNumber(Of(background_jobs, p)), Of(background_jobs, p), q)
      BY <1>d DEF mine
    <3>2. Edit(background_jobs, p, x, y, q)
      BY <1>0, <2>3, <3>1 DEF Edit
    <3>3. /\ \E n \in DOMAIN q : q[n] = x
          /\ \A n, m \in DOMAIN q : q[n].id = q[m].id => n = m
          /\ LoadJobs((background_jobs \ {x}) \cup {y}, p) = Edited(q, x, y)
      BY <3>2, JobChanged
    <3> QED
      BY <2>4, <3>3 DEF Edited
  <2>7. PICK n \in DOMAIN q : q[n] = x
    BY <2>6
  <2>8. jobs[n].id = i /\ jobs[n] = JobFrom(x)
    BY <1>f, <2>1, <2>7
  <2>9. LoadJobs(background_jobs', p) = [jobs EXCEPT ![n].status = s]
    <3>1. \A m \in DOMAIN q : q[m] = x <=> m = n
      BY <2>6, <2>7
    <3>2. \A m \in DOMAIN q : m # n => JobFrom(IF q[m] = x THEN y ELSE q[m]) = jobs[m]
      BY <1>f, <3>1
    <3>3. JobFrom(IF q[n] = x THEN y ELSE q[n]) = [jobs[n] EXCEPT !.status = s]
      BY <2>3, <2>7, <2>8
    <3>4. jobs = [m \in DOMAIN q |-> jobs[m]]
      BY <1>e
    <3>5. [jobs EXCEPT ![n].status = s]
            = [m \in DOMAIN q |-> IF m = n THEN [jobs[n] EXCEPT !.status = s] ELSE jobs[m]]
      BY <3>4
    <3>6. \A m \in DOMAIN q : JobFrom(IF q[m] = x THEN y ELSE q[m])
                                = IF m = n THEN [jobs[n] EXCEPT !.status = s] ELSE jobs[m]
      BY <3>2, <3>3
    <3> QED
      BY <2>6, <3>5, <3>6
  <2> DEFINE z == [D[p] EXCEPT !.jobs = [jobs EXCEPT ![n].status = s]]
  <2>10. z = PortfolioFrom(t, portfolio_positions', position_lots', background_jobs')
    BY <1>2, <1>b, <2>9, PartsChanged
  <2>11. Elsewhere(background_jobs, background_jobs', p)
    BY <2>3, <2>4 DEF Elsewhere, Of
  <2>12. D' = Memory!Put(D, p, z)
    <3>1. /\ Elsewhere(portfolio_positions, portfolio_positions', p)
          /\ Elsewhere(position_lots, position_lots', p)
      BY <1>2, NowhereElse
    <3>2. UniqueIds(portfolios) /\ UniqueIds(portfolios') /\ Puts(portfolios, portfolios', t)
      BY <1>2, <1>b DEF BooksInv, PortfoliosOk
    <3> HIDE DEF z
    <3> QED
      BY <1>b, <2>10, <2>11, <3>1, <3>2, PortfolioPut DEF DictPortfolios, D
  <2>13. Memory!Put(D, p, z) = [D EXCEPT ![p].jobs = [jobs EXCEPT ![n].status = s]]
    <3>1. D = [k \in DOMAIN D |-> D[k]]
      BY PortfolioEntries DEF DictPortfolios, BooksInv, PortfoliosOk, IsDict, D
    <3>2. DOMAIN D \cup {p} = DOMAIN D
      BY <1>b
    <3> DEFINE new == [jobs EXCEPT ![n].status = s]
    <3> HIDE DEF new
    <3>3. [D EXCEPT ![p].jobs = new] = [D EXCEPT ![p] = [D[p] EXCEPT !.jobs = new]]
      OBVIOUS
    <3>4. [D EXCEPT ![p] = z] = [k \in DOMAIN D |-> IF k = p THEN z ELSE D[k]]
      BY <3>1
    <3> QED
      BY <3>2, <3>3, <3>4 DEF Memory!Put, new
  <2>14. Memory!Write(c, [jobs[n] EXCEPT !.status = s])
    BY <2>3, <2>5, <2>8, WriteMatches
  <2>15. /\ UNCHANGED Memory!accounts /\ UNCHANGED Memory!market
         /\ UNCHANGED <<DictMoves, DictTrades, DictSettings, DictValuations>>
    BY <1>2, AccountsSame, MarketSame, LedgersSame
  <2>16. BooksInv'
    <3>1. writes' = writes + 1
      BY <1>2 DEF Write
    <3>2. UniqueIds(background_jobs')
      BY <1>0, <2>3, <2>4 DEF UniqueIds
    <3>3. IsFiniteSet(background_jobs')
      BY <1>0, <2>4, FS_AddElement, FS_RemoveElement
    <3>4. Numbered(background_jobs', writes')
      <4>1. Numbered(background_jobs, writes')
        BY <1>0, <3>1, NumberedOn
      <4> QED
        BY <2>3, <2>4, <4>1 DEF Numbered
    <3>5. JobsOk'
      BY <1>0, <2>3, <2>4, <3>2, <3>3, <3>4 DEF JobsOk
    <3>6. Owned(background_jobs)'
      BY <1>2, <1>a, <2>3, <2>4 DEF BooksInv, OwnersOk, Owned
    <3> QED
      BY <1>2, <3>1, <3>5, <3>6, JobsKept
  <2>17. n \in DOMAIN jobs
    BY <1>f
  <2> QED
    BY <1>b, <2>8, <2>12, <2>13, <2>14, <2>15, <2>16, <2>17
       DEF Memory!CompleteBackgroundJob, D, jobs
<1> QED
  BY <1>1, <1>2 DEF CompleteBackgroundJob, mine, row
-----------------------------------------------------------------------------
(* Ledgers. What the rows of a ledger hold, by portfolio.                    *)
Held(R) == [p \in {r.portfolio : r \in R} |-> {r.payload.sealed : r \in Of(R, p)}]

(* An entry is listed as it was added.                                       *)
LEMMA EntryRead ==
  ASSUME NEW r, NEW x, r = EntryRow(r.portfolio, x)
  PROVE  r.id = x.id /\ r.at = x.at /\ r.payload.sealed = x
<1> DEFINE e == EntryRow(r.portfolio, x)
<1>1. e.id = x.id /\ e.at = x.at /\ e.payload.sealed = x
  BY DEF EntryRow, Sealed
<1> HIDE DEF e
<1> QED
  BY <1>1 DEF e

(* A cash transaction.                                                       *)
LEMMA MovesRead ==
  ASSUME NEW r, Holds(r, Moves)
  PROVE  MoveFrom(r) = r.payload.sealed /\ Entry(r)
<1>1. PICK m \in Moves : r = EntryRow(r.portfolio, m)
  BY DEF Holds
<1>2. r.id = m.id /\ r.at = m.at /\ r.payload.sealed = m
  BY <1>1, EntryRead
<1>3. /\ None \notin {m.amount, m.source} /\ m.id \in Int /\ m.at \in Int
      /\ m = [id |-> m.id, at |-> m.at, amount |-> m.amount, source |-> m.source]
  BY RepositoryInputs
<1>4. MoveFrom(r) = [id |-> m.id, at |-> m.at, amount |-> m.amount, source |-> m.source]
  BY <1>2, <1>3 DEF MoveFrom, Float, Or
<1> QED
  BY <1>2, <1>3, <1>4 DEF Entry

(* A trade.                                                                  *)
LEMMA TradesRead ==
  ASSUME NEW r, Holds(r, Trades)
  PROVE  TradeFrom(r) = r.payload.sealed /\ Entry(r)
<1>1. PICK t \in Trades : r = EntryRow(r.portfolio, t)
  BY DEF Holds
<1>2. r.id = t.id /\ r.at = t.at /\ r.payload.sealed = t
  BY <1>1, EntryRead
<1>3. /\ t.lot_ids # None /\ t.id \in Int /\ t.at \in Int
      /\ t = [id |-> t.id, at |-> t.at, symbol |-> t.symbol, realized |-> t.realized,
              lot_ids |-> t.lot_ids]
  BY RepositoryInputs
<1>4. TradeFrom(r) = [id |-> t.id, at |-> t.at, symbol |-> t.symbol, realized |-> t.realized,
                      lot_ids |-> t.lot_ids]
  BY <1>2, <1>3 DEF TradeFrom, Or
<1> QED
  BY <1>2, <1>3, <1>4 DEF Entry

(* A valuation.                                                              *)
LEMMA ValuationsRead ==
  ASSUME NEW r, Holds(r, Valuations)
  PROVE  ValuationFrom(r) = r.payload.sealed /\ Entry(r)
<1>1. PICK v \in Valuations : r = EntryRow(r.portfolio, v)
  BY DEF Holds
<1>2. r.id = v.id /\ r.at = v.at /\ r.payload.sealed = v
  BY <1>1, EntryRead
<1>3. /\ v.equity # None /\ v.id \in Int /\ v.at \in Int
      /\ v = [id |-> v.id, at |-> v.at, equity |-> v.equity]
  BY RepositoryInputs
<1>4. ValuationFrom(r) = [id |-> v.id, at |-> v.at, equity |-> v.equity]
  BY <1>2, <1>3 DEF ValuationFrom, Float
<1> QED
  BY <1>2, <1>3, <1>4 DEF Entry

(* The dictionaries of the three ledgers.                                    *)
LEMMA MovesHeld ==
  ASSUME NEW R, EntriesOk(R, Moves)
  PROVE  OfPortfolios(R, MoveFrom) = Held(R) /\ \A r \in R : Entry(r)
<1>1. \A r \in R : MoveFrom(r) = r.payload.sealed /\ Entry(r)
  BY MovesRead DEF EntriesOk
<1>2. \A p : {MoveFrom(r) : r \in Of(R, p)} = {r.payload.sealed : r \in Of(R, p)}
  BY <1>1 DEF Of
<1> QED
  BY <1>1, <1>2 DEF OfPortfolios, Held

(* Trades.                                                                   *)
LEMMA TradesHeld ==
  ASSUME NEW R, EntriesOk(R, Trades)
  PROVE  OfPortfolios(R, TradeFrom) = Held(R) /\ \A r \in R : Entry(r)
<1>1. \A r \in R : TradeFrom(r) = r.payload.sealed /\ Entry(r)
  BY TradesRead DEF EntriesOk
<1>2. \A p : {TradeFrom(r) : r \in Of(R, p)} = {r.payload.sealed : r \in Of(R, p)}
  BY <1>1 DEF Of
<1> QED
  BY <1>1, <1>2 DEF OfPortfolios, Held

(* Valuations.                                                               *)
LEMMA ValuationsHeld ==
  ASSUME NEW R, EntriesOk(R, Valuations)
  PROVE  OfPortfolios(R, ValuationFrom) = Held(R) /\ \A r \in R : Entry(r)
<1>1. \A r \in R : ValuationFrom(r) = r.payload.sealed /\ Entry(r)
  BY ValuationsRead DEF EntriesOk
<1>2. \A p : {ValuationFrom(r) : r \in Of(R, p)} = {r.payload.sealed : r \in Of(R, p)}
  BY <1>1 DEF Of
<1> QED
  BY <1>1, <1>2 DEF OfPortfolios, Held

(* An entry added to a ledger.                                               *)
LEMMA HeldPut ==
  ASSUME NEW R, NEW p, NEW x
  PROVE  Held(R \cup {EntryRow(p, x)})
           = Memory!Put(Held(R), p, Memory!Under(Held(R), p) \cup {x})
<1> DEFINE row == EntryRow(p, x)
           T == R \cup {row}
           f == Held(R)
           g == Held(T)
<1>1. row.portfolio = p /\ row.payload.sealed = x
  BY DEF EntryRow, Sealed
<1> HIDE DEF row
<1>2. /\ DOMAIN f = {r.portfolio : r \in R}
      /\ \A i \in DOMAIN f : f[i] = {r.payload.sealed : r \in Of(R, i)}
  BY DEF Held
<1>3. /\ DOMAIN g = {r.portfolio : r \in T} /\ IsDict(g)
      /\ \A i \in DOMAIN g : g[i] = {r.payload.sealed : r \in Of(T, i)}
  BY DEF Held, IsDict
<1>4. Of(T, p) = Of(R, p) \cup {row} /\ \A i : i # p => Of(T, i) = Of(R, i)
  BY <1>1 DEF Of
<1> HIDE DEF f, g
<1>5. DOMAIN g = DOMAIN f \cup {p}
  BY <1>1, <1>2, <1>3
<1>6. \A i \in DOMAIN f : i # p => g[i] = f[i]
  BY <1>2, <1>3, <1>4, <1>5
<1>7. g[p] = Memory!Under(f, p) \cup {x}
  <2>1. g[p] = {r.payload.sealed : r \in Of(R, p)} \cup {x}
    <3> DEFINE A == Of(R, p)
    <3>1. g[p] = {r.payload.sealed : r \in Of(T, p)}
      BY <1>3, <1>5
    <3>2. g[p] = {r.payload.sealed : r \in A \cup {row}}
      BY <1>4, <3>1
    <3> HIDE DEF A
    <3>3. g[p] = {r.payload.sealed : r \in A} \cup {x}
      BY <1>1, <3>2
    <3> QED
      BY <3>3 DEF A
  <2>2. Memory!Under(f, p) = {r.payload.sealed : r \in Of(R, p)}
    <3>1. p \notin DOMAIN f => Of(R, p) = {}
      BY <1>2 DEF Of
    <3> QED
      BY <1>2, <3>1 DEF Memory!Under
  <2> QED
    BY <2>1, <2>2
<1>8. g = Memory!Put(f, p, Memory!Under(f, p) \cup {x})
  <2> DEFINE v == Memory!Under(f, p) \cup {x}
  <2>1. g[p] = v
    BY <1>7
  <2> HIDE DEF v, T
  <2>2. g = Memory!Put(f, p, v)
    BY <1>3, <1>5, <1>6, <2>1, PutIs
  <2> QED
    BY <2>2 DEF v
<1> QED
  BY <1>8 DEF f, g, row

(* It keeps the form of the ledger.                                          *)
LEMMA EntryAdded ==
  ASSUME NEW R, NEW X, EntriesOk(R, X), NEW p, NEW x \in X, UniqueIds(R \cup {EntryRow(p, x)})
  PROVE  EntriesOk(R \cup {EntryRow(p, x)}, X)
<1>1. EntryRow(p, x).portfolio = p
  BY DEF EntryRow
<1>2. Holds(EntryRow(p, x), X)
  BY <1>1 DEF Holds
<1>3. IsFiniteSet(R \cup {EntryRow(p, x)})
  BY FS_AddElement DEF EntriesOk
<1> QED
  BY <1>2, <1>3 DEF EntriesOk

(* The entries of a portfolio, in order.                                     *)
LEMMA HeldListed ==
  ASSUME NEW R, IsFiniteSet(R), UniqueIds(R), \A r \in R : Entry(r), NEW p
  PROVE  /\ Memory!Listed(Memory!Under(Held(R), p))
              = [n \in DOMAIN OrderBy(Of(R, p), Sooner) |->
                   OrderBy(Of(R, p), Sooner)[n].payload.sealed]
         /\ \A n \in DOMAIN OrderBy(Of(R, p), Sooner) : OrderBy(Of(R, p), Sooner)[n] \in R
<1> DEFINE S == Of(R, p)
<1>1. \A r \in S : r \in R
  BY DEF Of
<1>2. IsFiniteSet(S) /\ UniqueIds(S) /\ \A r \in S : Entry(r)
  <2>1. IsFiniteSet(S)
    BY <1>1, FS_Subset
  <2> QED
    BY <1>1, <2>1 DEF UniqueIds
<1>3. Memory!Under(Held(R), p) = {r.payload.sealed : r \in S}
  <2>1. /\ DOMAIN Held(R) = {r.portfolio : r \in R}
        /\ \A i \in DOMAIN Held(R) : Held(R)[i] = {r.payload.sealed : r \in Of(R, i)}
    BY DEF Held
  <2>2. p \notin DOMAIN Held(R) => S = {}
    BY <2>1 DEF Of
  <2> QED
    BY <2>1, <2>2 DEF Memory!Under
<1> HIDE DEF S
<1>4. Memory!Listed({r.payload.sealed : r \in S})
        = [n \in DOMAIN OrderBy(S, Sooner) |-> OrderBy(S, Sooner)[n].payload.sealed]
  BY <1>2, EntriesInOrder
<1>5. \A n \in DOMAIN OrderBy(S, Sooner) : OrderBy(S, Sooner)[n] \in S
  <2>1. IntIds(S) /\ IntDates(S)
    BY <1>2 DEF IntIds, IntDates, Entry
  <2>2. Line(ByDate(S), S, OrderBy(S, Sooner))
    BY <1>2, <2>1, OrderByDate
  <2>3. OrderBy(S, Sooner) \in [1 .. Cardinality(S) -> S]
    BY <2>2, Listing DEF Line
  <2> QED
    BY <2>3
<1> QED
  BY <1>1, <1>3, <1>4, <1>5 DEF S

(* A ledger left alone.                                                      *)
LEMMA LedgerSame ==
  /\ UNCHANGED cash_transactions => UNCHANGED DictMoves
  /\ UNCHANGED trade_transactions => UNCHANGED DictTrades
  /\ UNCHANGED portfolio_settings => UNCHANGED DictSettings
  /\ UNCHANGED valuation_snapshots => UNCHANGED DictValuations
<1>1. UNCHANGED cash_transactions => UNCHANGED DictMoves
  BY DEF DictMoves, OfPortfolios, Of, MoveFrom
<1>2. UNCHANGED trade_transactions => UNCHANGED DictTrades
  BY DEF DictTrades, OfPortfolios, Of, TradeFrom
<1>3. UNCHANGED portfolio_settings => UNCHANGED DictSettings
  BY DEF DictSettings, SettingsOf
<1>4. UNCHANGED valuation_snapshots => UNCHANGED DictValuations
  BY DEF DictValuations, OfPortfolios, Of, ValuationFrom
<1> QED
  BY <1>1, <1>2, <1>3, <1>4

(* What a write to a ledger leaves true.                                     *)
LEMMA LedgerKept ==
  ASSUME BooksInv, WritesOk, writes' = writes + 1,
         UNCHANGED <<portfolios, portfolio_positions, position_lots, background_jobs>>,
         LedgersOk', Owned(cash_transactions)', Owned(trade_transactions)',
         Owned(valuation_snapshots)', Owned(portfolio_settings)'
  PROVE  BooksInv'
<1>1. PortfoliosOk'
  BY PortfoliosOn
<1>2. JobsOk'
  <2>1. Numbered(background_jobs, writes')
    BY NumberedOn DEF BooksInv, JobsOk
  <2> QED
    BY <2>1 DEF BooksInv, JobsOk, UniqueIds, JobRow
<1>3. Owned(portfolio_positions)' /\ Owned(position_lots)' /\ Owned(background_jobs)'
  BY DEF BooksInv, OwnersOk, Owned
<1> QED
  BY <1>1, <1>2, <1>3 DEF BooksInv, OwnersOk

(* add_cash_transaction, add_trade_transaction, add_valuation_snapshot.      *)
LEMMA AddedRow ==
  ASSUME BooksInv, NEW R, Owned(R), NEW p, NEW x, Added(R, p, x)
  PROVE  /\ p \in DOMAIN DictPortfolios /\ UniqueIds(R \cup {EntryRow(p, x)})
         /\ Owned(R \cup {EntryRow(p, x)})
<1>1. p \in IdsOf(portfolios) /\ UniqueIds(R \cup {EntryRow(p, x)})
  BY DEF Added, Exists
<1>2. p \in DOMAIN DictPortfolios
  BY <1>1, Named
<1>3. EntryRow(p, x).portfolio = p
  BY DEF EntryRow
<1> QED
  BY <1>1, <1>2, <1>3 DEF Owned

(* add_cash_transaction.                                                     *)
LEMMA AddCashMatches ==
  ASSUME BooksInv, WritesOk, NEW p, NEW m \in Moves, AddCashTransaction(p, m)
  PROVE  Memory!AddCashTransaction(p, m) /\ BooksInv'
<1> DEFINE T == cash_transactions \cup {EntryRow(p, m)}
           c == <<"add_cash_transaction", p, m>>
<1>1. /\ Added(cash_transactions, p, m) /\ Write(c, m) /\ cash_transactions' = T
      /\ UNCHANGED <<portfolios, portfolio_positions, position_lots, background_jobs>>
      /\ UNCHANGED <<trade_transactions, portfolio_settings, valuation_snapshots>>
      /\ UNCHANGED accounts /\ UNCHANGED market
  BY DEF AddCashTransaction
<1>2. /\ EntriesOk(cash_transactions, Moves) /\ EntriesOk(trade_transactions, Trades)
      /\ EntriesOk(valuation_snapshots, Valuations)
      /\ Owned(cash_transactions) /\ Owned(trade_transactions) /\ Owned(valuation_snapshots)
      /\ Owned(portfolio_settings)
  BY DEF BooksInv, LedgersOk, OwnersOk
<1>3. p \in DOMAIN DictPortfolios /\ UniqueIds(T) /\ Owned(T)
  BY <1>1, <1>2, AddedRow
<1>4. EntriesOk(T, Moves)
  BY <1>2, <1>3, EntryAdded
<1>5. DictMoves = Held(cash_transactions)
  BY <1>2, MovesHeld DEF DictMoves
<1>6. DictMoves' = Held(T)
  <2>1. OfPortfolios(T, MoveFrom) = Held(T)
    BY <1>4, MovesHeld
  <2> HIDE DEF T
  <2>2. DictMoves' = OfPortfolios(T, MoveFrom)
    BY <1>1 DEF DictMoves, OfPortfolios, Of, MoveFrom
  <2> QED
    BY <2>1, <2>2
<1>7. DictMoves' = Memory!Put(DictMoves, p, Memory!Under(DictMoves, p) \cup {m})
  BY <1>5, <1>6, HeldPut
<1>8. BooksInv'
  <2>1. writes' = writes + 1
    BY <1>1 DEF Write
  <2>2. LedgersOk'
    <3>1. EntriesOk(cash_transactions', Moves)
      BY <1>1, <1>4
    <3> HIDE DEF T
    <3> QED
      BY <1>1, <1>2, <3>1 DEF LedgersOk, EntriesOk, UniqueIds, Holds, EntryRow, Sealed
  <2>3. /\ Owned(cash_transactions)' /\ Owned(trade_transactions)'
        /\ Owned(valuation_snapshots)' /\ Owned(portfolio_settings)'
    BY <1>1, <1>2, <1>3 DEF Owned
  <2> QED
    BY <1>1, <2>1, <2>2, <2>3, LedgerKept
<1>9. Memory!Write(c, m)
  BY <1>1, WriteMatches
<1>10. /\ UNCHANGED Memory!accounts /\ UNCHANGED Memory!market
       /\ UNCHANGED <<DictPortfolios, DictTrades, DictSettings, DictValuations>>
  BY <1>1, AccountsSame, MarketSame, PortfoliosSame, LedgerSame
<1> QED
  BY <1>3, <1>7, <1>8, <1>9, <1>10 DEF Memory!AddCashTransaction

(* add_trade_transaction.                                                    *)
LEMMA AddTradeMatches ==
  ASSUME BooksInv, WritesOk, NEW p, NEW t \in Trades, AddTradeTransaction(p, t)
  PROVE  Memory!AddTradeTransaction(p, t) /\ BooksInv'
<1> DEFINE T == trade_transactions \cup {EntryRow(p, t)}
           c == <<"add_trade_transaction", p, t>>
<1>1. /\ Added(trade_transactions, p, t) /\ Write(c, t) /\ trade_transactions' = T
      /\ UNCHANGED <<portfolios, portfolio_positions, position_lots, background_jobs>>
      /\ UNCHANGED <<cash_transactions, portfolio_settings, valuation_snapshots>>
      /\ UNCHANGED accounts /\ UNCHANGED market
  BY DEF AddTradeTransaction
<1>2. /\ EntriesOk(cash_transactions, Moves) /\ EntriesOk(trade_transactions, Trades)
      /\ EntriesOk(valuation_snapshots, Valuations)
      /\ Owned(cash_transactions) /\ Owned(trade_transactions) /\ Owned(valuation_snapshots)
      /\ Owned(portfolio_settings)
  BY DEF BooksInv, LedgersOk, OwnersOk
<1>3. p \in DOMAIN DictPortfolios /\ UniqueIds(T) /\ Owned(T)
  BY <1>1, <1>2, AddedRow
<1>4. EntriesOk(T, Trades)
  BY <1>2, <1>3, EntryAdded
<1>5. DictTrades = Held(trade_transactions)
  BY <1>2, TradesHeld DEF DictTrades
<1>6. DictTrades' = Held(T)
  <2>1. OfPortfolios(T, TradeFrom) = Held(T)
    BY <1>4, TradesHeld
  <2> HIDE DEF T
  <2>2. DictTrades' = OfPortfolios(T, TradeFrom)
    BY <1>1 DEF DictTrades, OfPortfolios, Of, TradeFrom
  <2> QED
    BY <2>1, <2>2
<1>7. DictTrades' = Memory!Put(DictTrades, p, Memory!Under(DictTrades, p) \cup {t})
  BY <1>5, <1>6, HeldPut
<1>8. BooksInv'
  <2>1. writes' = writes + 1
    BY <1>1 DEF Write
  <2>2. LedgersOk'
    <3>1. EntriesOk(trade_transactions', Trades)
      BY <1>1, <1>4
    <3> HIDE DEF T
    <3> QED
      BY <1>1, <1>2, <3>1 DEF LedgersOk, EntriesOk, UniqueIds, Holds, EntryRow, Sealed
  <2>3. /\ Owned(cash_transactions)' /\ Owned(trade_transactions)'
        /\ Owned(valuation_snapshots)' /\ Owned(portfolio_settings)'
    BY <1>1, <1>2, <1>3 DEF Owned
  <2> QED
    BY <1>1, <2>1, <2>2, <2>3, LedgerKept
<1>9. Memory!Write(c, t)
  BY <1>1, WriteMatches
<1>10. /\ UNCHANGED Memory!accounts /\ UNCHANGED Memory!market
       /\ UNCHANGED <<DictPortfolios, DictMoves, DictSettings, DictValuations>>
  BY <1>1, AccountsSame, MarketSame, PortfoliosSame, LedgerSame
<1> QED
  BY <1>3, <1>7, <1>8, <1>9, <1>10 DEF Memory!AddTradeTransaction

(* add_valuation_snapshot.                                                   *)
LEMMA AddValuationMatches ==
  ASSUME BooksInv, WritesOk, NEW p, NEW v \in Valuations, AddValuationSnapshot(p, v)
  PROVE  Memory!AddValuationSnapshot(p, v) /\ BooksInv'
<1> DEFINE T == valuation_snapshots \cup {EntryRow(p, v)}
           c == <<"add_valuation_snapshot", p, v>>
<1>1. /\ Added(valuation_snapshots, p, v) /\ Write(c, v) /\ valuation_snapshots' = T
      /\ UNCHANGED <<portfolios, portfolio_positions, position_lots, background_jobs>>
      /\ UNCHANGED <<cash_transactions, portfolio_settings, trade_transactions>>
      /\ UNCHANGED accounts /\ UNCHANGED market
  BY DEF AddValuationSnapshot
<1>2. /\ EntriesOk(cash_transactions, Moves) /\ EntriesOk(trade_transactions, Trades)
      /\ EntriesOk(valuation_snapshots, Valuations)
      /\ Owned(cash_transactions) /\ Owned(trade_transactions) /\ Owned(valuation_snapshots)
      /\ Owned(portfolio_settings)
  BY DEF BooksInv, LedgersOk, OwnersOk
<1>3. p \in DOMAIN DictPortfolios /\ UniqueIds(T) /\ Owned(T)
  BY <1>1, <1>2, AddedRow
<1>4. EntriesOk(T, Valuations)
  BY <1>2, <1>3, EntryAdded
<1>5. DictValuations = Held(valuation_snapshots)
  BY <1>2, ValuationsHeld DEF DictValuations
<1>6. DictValuations' = Held(T)
  <2>1. OfPortfolios(T, ValuationFrom) = Held(T)
    BY <1>4, ValuationsHeld
  <2> HIDE DEF T
  <2>2. DictValuations' = OfPortfolios(T, ValuationFrom)
    BY <1>1 DEF DictValuations, OfPortfolios, Of, ValuationFrom
  <2> QED
    BY <2>1, <2>2
<1>7. DictValuations' = Memory!Put(DictValuations, p, Memory!Under(DictValuations, p) \cup {v})
  BY <1>5, <1>6, HeldPut
<1>8. BooksInv'
  <2>1. writes' = writes + 1
    BY <1>1 DEF Write
  <2>2. LedgersOk'
    <3>1. EntriesOk(valuation_snapshots', Valuations)
      BY <1>1, <1>4
    <3> HIDE DEF T
    <3> QED
      BY <1>1, <1>2, <3>1 DEF LedgersOk, EntriesOk, UniqueIds, Holds, EntryRow, Sealed
  <2>3. /\ Owned(cash_transactions)' /\ Owned(trade_transactions)'
        /\ Owned(valuation_snapshots)' /\ Owned(portfolio_settings)'
    BY <1>1, <1>2, <1>3 DEF Owned
  <2> QED
    BY <1>1, <2>1, <2>2, <2>3, LedgerKept
<1>9. Memory!Write(c, v)
  BY <1>1, WriteMatches
<1>10. /\ UNCHANGED Memory!accounts /\ UNCHANGED Memory!market
       /\ UNCHANGED <<DictPortfolios, DictMoves, DictTrades, DictSettings>>
  BY <1>1, AccountsSame, MarketSame, PortfoliosSame, LedgerSame
<1> QED
  BY <1>3, <1>7, <1>8, <1>9, <1>10 DEF Memory!AddValuationSnapshot

(* list_cash_transactions, list_trade_transactions, list_valuation_snapshots.*)
LEMMA ListCashMatches ==
  ASSUME BooksInv, NEW p, ListCashTransactions(p)
  PROVE  Memory!ListCashTransactions(p)
<1> DEFINE R == cash_transactions
           q == OrderBy(Of(R, p), Sooner)
           c == <<"list_cash_transactions", p>>
<1>1. Read(c, [n \in DOMAIN q |-> MoveFrom(q[n])])
  BY DEF ListCashTransactions, Entries
<1>2. /\ EntriesOk(R, Moves) /\ IsFiniteSet(R) /\ UniqueIds(R)
      /\ \A r \in R : MoveFrom(r) = r.payload.sealed /\ Entry(r)
  BY MovesRead DEF BooksInv, LedgersOk, EntriesOk
<1>3. DictMoves = Held(R)
  BY <1>2, MovesHeld DEF DictMoves
<1>4. /\ Memory!Listed(Memory!Under(Held(R), p)) = [n \in DOMAIN q |-> q[n].payload.sealed]
      /\ \A n \in DOMAIN q : q[n] \in R
  BY <1>2, HeldListed
<1> HIDE DEF q, R, c
<1>5. [n \in DOMAIN q |-> MoveFrom(q[n])] = [n \in DOMAIN q |-> q[n].payload.sealed]
  BY <1>2, <1>4
<1>6. Read(c, Memory!Listed(Memory!Under(DictMoves, p)))
  BY <1>1, <1>3, <1>4, <1>5
<1> QED
  BY <1>6, ReadMatches DEF Memory!ListCashTransactions, c

(* list_trade_transactions.                                                  *)
LEMMA ListTradesMatches ==
  ASSUME BooksInv, NEW p, ListTradeTransactions(p)
  PROVE  Memory!ListTradeTransactions(p)
<1> DEFINE R == trade_transactions
           q == OrderBy(Of(R, p), Sooner)
           c == <<"list_trade_transactions", p>>
<1>1. Read(c, [n \in DOMAIN q |-> TradeFrom(q[n])])
  BY DEF ListTradeTransactions, Entries
<1>2. /\ EntriesOk(R, Trades) /\ IsFiniteSet(R) /\ UniqueIds(R)
      /\ \A r \in R : TradeFrom(r) = r.payload.sealed /\ Entry(r)
  BY TradesRead DEF BooksInv, LedgersOk, EntriesOk
<1>3. DictTrades = Held(R)
  BY <1>2, TradesHeld DEF DictTrades
<1>4. /\ Memory!Listed(Memory!Under(Held(R), p)) = [n \in DOMAIN q |-> q[n].payload.sealed]
      /\ \A n \in DOMAIN q : q[n] \in R
  BY <1>2, HeldListed
<1> HIDE DEF q, R, c
<1>5. [n \in DOMAIN q |-> TradeFrom(q[n])] = [n \in DOMAIN q |-> q[n].payload.sealed]
  BY <1>2, <1>4
<1>6. Read(c, Memory!Listed(Memory!Under(DictTrades, p)))
  BY <1>1, <1>3, <1>4, <1>5
<1> QED
  BY <1>6, ReadMatches DEF Memory!ListTradeTransactions, c

(* list_valuation_snapshots.                                                 *)
LEMMA ListValuationsMatches ==
  ASSUME BooksInv, NEW p, ListValuationSnapshots(p)
  PROVE  Memory!ListValuationSnapshots(p)
<1> DEFINE R == valuation_snapshots
           q == OrderBy(Of(R, p), Sooner)
           c == <<"list_valuation_snapshots", p>>
<1>1. Read(c, [n \in DOMAIN q |-> ValuationFrom(q[n])])
  BY DEF ListValuationSnapshots, Entries
<1>2. /\ EntriesOk(R, Valuations) /\ IsFiniteSet(R) /\ UniqueIds(R)
      /\ \A r \in R : ValuationFrom(r) = r.payload.sealed /\ Entry(r)
  BY ValuationsRead DEF BooksInv, LedgersOk, EntriesOk
<1>3. DictValuations = Held(R)
  BY <1>2, ValuationsHeld DEF DictValuations
<1>4. /\ Memory!Listed(Memory!Under(Held(R), p)) = [n \in DOMAIN q |-> q[n].payload.sealed]
      /\ \A n \in DOMAIN q : q[n] \in R
  BY <1>2, HeldListed
<1> HIDE DEF q, R, c
<1>5. [n \in DOMAIN q |-> ValuationFrom(q[n])] = [n \in DOMAIN q |-> q[n].payload.sealed]
  BY <1>2, <1>4
<1>6. Read(c, Memory!Listed(Memory!Under(DictValuations, p)))
  BY <1>1, <1>3, <1>4, <1>5
<1> QED
  BY <1>6, ReadMatches DEF Memory!ListValuationSnapshots, c

(* get_portfolio_settings and upsert_portfolio_settings.                     *)
SettingsIn(R) ==
  [p \in {r.portfolio : r \in R} |->
     IF Of(R, p) # {} THEN SettingsFrom(The(Of(R, p))) ELSE DefaultSettings]

(* get_portfolio_settings.                                                   *)
LEMMA GetSettingsMatches ==
  ASSUME BooksInv, NEW p, GetPortfolioSettings(p)
  PROVE  Memory!GetPortfolioSettings(p)
<1> DEFINE c == <<"get_portfolio_settings", p>>
           R == portfolio_settings
<1>1. Read(c, IF p \in IdsOf(portfolios) THEN SettingsOf(p) ELSE Raised("KeyError"))
  BY DEF GetPortfolioSettings, Exists
<1>2. DOMAIN DictPortfolios = IdsOf(portfolios)
  BY PortfolioEntries DEF DictPortfolios, BooksInv, PortfoliosOk
<1>3. /\ DOMAIN DictSettings = {r.portfolio : r \in R}
      /\ \A i \in DOMAIN DictSettings : DictSettings[i] = SettingsOf(i)
  BY DEF DictSettings
<1>4. p \notin DOMAIN DictSettings => SettingsOf(p) = Memory!DefaultSettings
  <2>1. p \notin DOMAIN DictSettings => Of(R, p) = {}
    BY <1>3 DEF Of
  <2> QED
    BY <2>1 DEF SettingsOf, DefaultSettings, Memory!DefaultSettings
<1>5. Raised("KeyError") = Memory!Raised("KeyError")
  BY DEF Raised, Memory!Raised
<1>6. Read(c, IF p \notin DOMAIN DictPortfolios THEN Memory!Raised("KeyError")
              ELSE IF p \in DOMAIN DictSettings THEN DictSettings[p]
              ELSE Memory!DefaultSettings)
  BY <1>1, <1>2, <1>3, <1>4, <1>5
<1> HIDE DEF c
<1> QED
  BY <1>6, ReadMatches DEF Memory!GetPortfolioSettings, c

(* Settings read as they were written.                                       *)
LEMMA SettingsRead ==
  ASSUME NEW s \in SettingsRows, NEW p
  PROVE  SettingsFrom([portfolio |-> p, payload |-> Sealed(s)]) = s
<1>1. /\ s.rate # None
      /\ s = [rate |-> s.rate, benchmarks |-> s.benchmarks, target |-> s.target,
              score |-> s.score, watchlist |-> s.watchlist]
  BY RepositoryInputs
<1>2. /\ [n \in DOMAIN s.benchmarks |-> Normal[s.benchmarks[n]]] = s.benchmarks
      /\ [n \in DOMAIN s.watchlist |-> Normal[s.watchlist[n]]] = s.watchlist
  <2>1. \A list \in {s.benchmarks, s.watchlist} : list = [n \in DOMAIN list |-> Normal[list[n]]]
    BY RepositoryInputs
  <2> QED
    BY <2>1
<1>3. SettingsFrom([portfolio |-> p, payload |-> Sealed(s)])
        = [rate |-> s.rate, benchmarks |-> [n \in DOMAIN s.benchmarks |-> Normal[s.benchmarks[n]]],
           target |-> s.target, score |-> s.score,
           watchlist |-> [n \in DOMAIN s.watchlist |-> Normal[s.watchlist[n]]]]
  BY <1>1 DEF SettingsFrom, Sealed, Float
<1> QED
  BY <1>1, <1>2, <1>3

(* The settings of one portfolio put.                                        *)
LEMMA SettingsPut ==
  ASSUME NEW R, NEW p, NEW s \in SettingsRows, NEW T,
         T = (R \ Of(R, p)) \cup {[portfolio |-> p, payload |-> Sealed(s)]}
  PROVE  SettingsIn(T) = Memory!Put(SettingsIn(R), p, s)
<1> DEFINE row == [portfolio |-> p, payload |-> Sealed(s)]
           f == SettingsIn(R)
           g == SettingsIn(T)
           In(S, i) == IF Of(S, i) # {} THEN SettingsFrom(The(Of(S, i))) ELSE DefaultSettings
<1>0. SettingsFrom(row) = s /\ row.portfolio = p
  BY SettingsRead
<1> HIDE DEF row
<1>1. DOMAIN f = {r.portfolio : r \in R} /\ \A i \in DOMAIN f : f[i] = In(R, i)
  BY DEF SettingsIn
<1>2. DOMAIN g = {r.portfolio : r \in T} /\ IsDict(g) /\ \A i \in DOMAIN g : g[i] = In(T, i)
  BY DEF SettingsIn, IsDict
<1>3. T = (R \ Of(R, p)) \cup {row}
  BY DEF row
<1>4. Of(T, p) = {row} /\ \A i : i # p => Of(T, i) = Of(R, i)
  BY <1>0, <1>3 DEF Of
<1>5. In(T, p) = s /\ \A i : i # p => In(T, i) = In(R, i)
  BY <1>0, <1>4, TheOnly
<1> HIDE DEF f, g, In
<1>6. DOMAIN g = DOMAIN f \cup {p}
  <2>1. \A r \in T : r.portfolio = p \/ r \in R
    BY <1>0, <1>3
  <2>2. \A r \in R : r.portfolio = p \/ r \in T
    BY <1>3 DEF Of
  <2>3. row \in T
    BY <1>3
  <2> QED
    BY <1>0, <1>1, <1>2, <2>1, <2>2, <2>3
<1>7. g = Memory!Put(f, p, s)
  <2>1. g[p] = s /\ \A i \in DOMAIN f : i # p => g[i] = f[i]
    BY <1>1, <1>2, <1>5, <1>6
  <2> QED
    BY <1>2, <1>6, <2>1, PutIs
<1> QED
  BY <1>7 DEF f, g

(* upsert_portfolio_settings.                                                *)
LEMMA UpsertSettingsMatches ==
  ASSUME BooksInv, WritesOk, NEW p, NEW s \in SettingsRows, UpsertPortfolioSettings(p, s)
  PROVE  Memory!UpsertPortfolioSettings(p, s) /\ BooksInv'
<1> DEFINE c == <<"upsert_portfolio_settings", p, s>>
           R == portfolio_settings
           row == [portfolio |-> p, payload |-> Sealed(s)]
<1>1. /\ p \in IdsOf(portfolios) /\ Write(c, s)
      /\ portfolio_settings' = (R \ Of(R, p)) \cup {row}
      /\ UNCHANGED <<portfolios, portfolio_positions, position_lots, background_jobs>>
      /\ UNCHANGED <<cash_transactions, trade_transactions, valuation_snapshots>>
      /\ UNCHANGED accounts /\ UNCHANGED market
  BY DEF UpsertPortfolioSettings, Exists
<1>2. p \in DOMAIN DictPortfolios
  BY <1>1, Named
<1>3. DictSettings = SettingsIn(R) /\ DictSettings' = SettingsIn(portfolio_settings')
  BY DEF DictSettings, SettingsIn, SettingsOf
<1>4. DictSettings' = Memory!Put(DictSettings, p, s)
  <2> DEFINE T == portfolio_settings'
  <2>1. T = (R \ Of(R, p)) \cup {row}
    BY <1>1
  <2> HIDE DEF T
  <2>2. SettingsIn(T) = Memory!Put(SettingsIn(R), p, s)
    BY <2>1, SettingsPut
  <2> QED
    BY <1>3, <2>2 DEF T
<1>5. row.portfolio = p
  OBVIOUS
<1> HIDE DEF row
<1>8. BooksInv'
  <2>1. writes' = writes + 1
    BY <1>1 DEF Write
  <2>2. LedgersOk'
    BY <1>1 DEF BooksInv, LedgersOk, EntriesOk, UniqueIds, Holds, EntryRow, Sealed
  <2>3. /\ Owned(cash_transactions)' /\ Owned(trade_transactions)'
        /\ Owned(valuation_snapshots)' /\ Owned(portfolio_settings)'
    BY <1>1, <1>5 DEF BooksInv, OwnersOk, Owned
  <2> QED
    BY <1>1, <2>1, <2>2, <2>3, LedgerKept
<1>9. Memory!Write(c, s)
  BY <1>1, WriteMatches
<1>10. /\ UNCHANGED Memory!accounts /\ UNCHANGED Memory!market
       /\ UNCHANGED <<DictPortfolios, DictMoves, DictTrades, DictValuations>>
  BY <1>1, AccountsSame, MarketSame, PortfoliosSame, LedgerSame
<1> QED
  BY <1>2, <1>4, <1>8, <1>9, <1>10 DEF Memory!UpsertPortfolioSettings
-----------------------------------------------------------------------------
(* The repository as a whole. What is true of the tables after every call.   *)
RepositoryInv == WritesOk /\ AccountsInv /\ BooksInv /\ MarketInv

(* Dictionaries without entries, which tables without rows stand for.        *)
LEMMA NoRows ==
  /\ UsersById({}) = Memory!Empty /\ ByEmail({}) = Memory!Empty
  /\ ById({}) = Memory!Empty /\ ByHash({}) = Memory!Empty
  /\ PortfoliosById({}, {}, {}, {}) = Memory!Empty
  /\ OfPortfolios({}, MoveFrom) = Memory!Empty /\ OfPortfolios({}, TradeFrom) = Memory!Empty
  /\ OfPortfolios({}, ValuationFrom) = Memory!Empty
  /\ SettingsIn({}) = Memory!Empty /\ ByTicker({}) = Memory!Empty
<1>0. /\ IdsOf({}) = {} /\ {UserFrom(r).email : r \in {}} = {} /\ {r.hash : r \in {}} = {}
      /\ {r.portfolio : r \in {}} = {} /\ {r.ticker : r \in {}} = {}
  BY DEF IdsOf
<1>1. UsersById({}) = Memory!Empty /\ ById({}) = Memory!Empty
  BY <1>0 DEF UsersById, ById, Memory!Empty
<1>2. ByEmail({}) = Memory!Empty /\ ByHash({}) = Memory!Empty /\ ByTicker({}) = Memory!Empty
  BY <1>0 DEF ByEmail, ByHash, ByTicker, Memory!Empty
<1>3. PortfoliosById({}, {}, {}, {}) = Memory!Empty
  BY <1>0 DEF PortfoliosById, Memory!Empty
<1>4. OfPortfolios({}, MoveFrom) = Memory!Empty
  BY <1>0 DEF OfPortfolios, MoveFrom, Memory!Empty
<1>5. OfPortfolios({}, TradeFrom) = Memory!Empty
  BY <1>0 DEF OfPortfolios, TradeFrom, Memory!Empty
<1>6. OfPortfolios({}, ValuationFrom) = Memory!Empty
  BY <1>0 DEF OfPortfolios, ValuationFrom, Memory!Empty
<1>7. SettingsIn({}) = Memory!Empty
  BY <1>0 DEF SettingsIn, Memory!Empty
<1> QED
  BY <1>1, <1>2, <1>3, <1>4, <1>5, <1>6, <1>7

(* Tables without rows.                                                      *)
Cleared ==
  /\ users = {} /\ auth_tokens = {}
  /\ portfolios = {} /\ portfolio_positions = {} /\ position_lots = {}
  /\ background_jobs = {} /\ cash_transactions = {} /\ trade_transactions = {}
  /\ portfolio_settings = {} /\ valuation_snapshots = {}
  /\ market_quotes = {} /\ option_chain_snapshots = {}
NoEntries ==
  /\ Memory!accounts = <<Memory!Empty, Memory!Empty, Memory!Empty, Memory!Empty>>
  /\ Memory!books = <<Memory!Empty, Memory!Empty, Memory!Empty, Memory!Empty, Memory!Empty>>
  /\ Memory!market = <<Memory!Empty, Memory!Empty>>

(* They stand for empty dictionaries, and are consistent.                    *)
LEMMA ClearedTables == Cleared => NoEntries /\ AccountsInv /\ BooksInv /\ MarketInv
<1> SUFFICES ASSUME Cleared
             PROVE  NoEntries /\ AccountsInv /\ BooksInv /\ MarketInv
  OBVIOUS
<1>1. Memory!accounts = <<Memory!Empty, Memory!Empty, Memory!Empty, Memory!Empty>>
  BY NoRows DEF Cleared, Memory!accounts, DictUsers, DictEmails, DictTokens, DictHashes
<1>2. DictPortfolios = Memory!Empty
  BY NoRows DEF Cleared, DictPortfolios
<1>3. DictMoves = Memory!Empty
  <2>1. DictMoves = OfPortfolios({}, MoveFrom)
    BY DEF Cleared, DictMoves
  <2> QED
    BY <2>1, NoRows
<1>4. DictTrades = Memory!Empty
  <2>1. DictTrades = OfPortfolios({}, TradeFrom)
    BY DEF Cleared, DictTrades
  <2> QED
    BY <2>1, NoRows
<1>5. DictValuations = Memory!Empty
  <2>1. DictValuations = OfPortfolios({}, ValuationFrom)
    BY DEF Cleared, DictValuations
  <2> QED
    BY <2>1, NoRows
<1>6. DictSettings = Memory!Empty
  <2>1. DictSettings = SettingsIn({})
    BY DEF Cleared, DictSettings, SettingsIn, SettingsOf
  <2> QED
    BY <2>1, NoRows
<1>7. Memory!market = <<Memory!Empty, Memory!Empty>>
  BY NoRows DEF Cleared, Memory!market, DictQuotes, DictOptions
<1>8. AccountsInv
  BY FS_EmptySet DEF Cleared, AccountsInv, UsersOk, TokensOk, UniqueIds, UniqueEmails,
                     UniqueHashes, Numbered
<1>9. BooksInv
  BY FS_EmptySet DEF Cleared, BooksInv, PortfoliosOk, JobsOk, LedgersOk, OwnersOk, EntriesOk,
                     UniqueIds, Numbered, Owned
<1>10. MarketInv
  BY FS_EmptySet DEF Cleared, MarketInv, QuotesOk, OptionsOk, UniqueTickers, UniqueIds,
                     UniqueHashes
<1> QED
  BY <1>1, <1>2, <1>3, <1>4, <1>5, <1>6, <1>7, <1>8, <1>9, <1>10
     DEF NoEntries, Memory!books

(* A call reads, or is a write more.                                         *)
Counted == writes' = writes \/ (writes < MaxWrites /\ writes' = writes + 1)
LEMMA CallsCount ==
  /\ \A c, a : Read(c, a) => Counted /\ UNCHANGED accounts /\ UNCHANGED books /\ UNCHANGED market
  /\ \A c, a : Write(c, a) => Counted
  /\ \A c, e : Refuse(c, e) => Counted /\ UNCHANGED accounts /\ UNCHANGED books
                                       /\ UNCHANGED market
  BY DEF Read, Write, Refuse, Counted

(* What a call leaves consistent.                                            *)
LEMMA InvKept ==
  ASSUME RepositoryInv, Counted, UNCHANGED accounts \/ AccountsInv',
         UNCHANGED books \/ BooksInv', UNCHANGED market \/ MarketInv'
  PROVE  RepositoryInv'
<1>1. WritesOk' /\ writes' \in Nat /\ writes <= writes'
  BY RepositoryInputs DEF RepositoryInv, WritesOk, Counted
<1>2. WritesOk /\ AccountsInv /\ BooksInv /\ MarketInv
  BY DEF RepositoryInv
<1>3. AccountsInv'
  BY <1>1, <1>2, AccountsKept
<1>4. BooksInv'
  BY <1>1, <1>2, BooksKept
<1>5. MarketInv'
  BY <1>2, MarketKept
<1> QED
  BY <1>1, <1>3, <1>4, <1>5 DEF RepositoryInv

(* A row of a table that the writes number is named by one of them.          *)
LEMMA NumberOf ==
  ASSUME WritesOk, NEW R, Numbered(R, writes), NEW r \in R
  PROVE  r.id \in 1 .. MaxWrites
<1>1. r.id \in 1 .. writes
  BY DEF Numbered
<1> QED
  BY <1>1, RepositoryInputs DEF WritesOk

(* Every call on accounts.                                                   *)
LEMMA AccountStep ==
  ASSUME RepositoryInv, AccountCall
  PROVE  Memory!AccountCall /\ RepositoryInv'
<1>0. WritesOk /\ AccountsInv
  BY DEF RepositoryInv
<1> USE <1>0
<1>1. CASE \E a \in Addresses, p \in {"old", "new"} : CreateUser(a, p)
  <2>1. PICK a \in Addresses, p \in {"old", "new"} : CreateUser(a, p)
    BY <1>1
  <2>2. Memory!CreateUser(a, p) /\ (UNCHANGED accounts \/ AccountsInv')
    BY <2>1, CreateUserMatches
  <2>3. Counted /\ UNCHANGED books /\ UNCHANGED market
    BY <2>1, CallsCount DEF CreateUser
  <2> QED
    BY <2>2, <2>3, InvKept DEF Memory!AccountCall
<1>2. CASE \E a \in Addresses : GetUserByEmail(a)
  <2>1. PICK a \in Addresses : GetUserByEmail(a)
    BY <1>2
  <2>2. Memory!GetUserByEmail(a)
    BY <2>1, GetUserByEmailMatches
  <2>3. Counted /\ UNCHANGED accounts /\ UNCHANGED books /\ UNCHANGED market
    BY <2>1, CallsCount DEF GetUserByEmail
  <2> QED
    BY <2>2, <2>3, InvKept DEF Memory!AccountCall
<1>9. CASE \E u \in 1 .. MaxWrites : GetUser(u)
  <2>1. PICK u \in 1 .. MaxWrites : GetUser(u)
    BY <1>9
  <2>2. Memory!GetUser(u)
    BY <2>1, GetUserMatches
  <2>3. Counted /\ UNCHANGED accounts /\ UNCHANGED books /\ UNCHANGED market
    BY <2>1, CallsCount DEF GetUser
  <2> QED
    BY <2>2, <2>3, InvKept DEF Memory!AccountCall
<1>3. CASE \E u \in 1 .. MaxWrites : MarkUserEmailVerified(u) \/ UpdateUserPassword(u, "new")
  <2>1. PICK u \in 1 .. MaxWrites : MarkUserEmailVerified(u) \/ UpdateUserPassword(u, "new")
    BY <1>3
  <2>2. /\ Memory!MarkUserEmailVerified(u) \/ Memory!UpdateUserPassword(u, "new")
        /\ UNCHANGED accounts \/ AccountsInv'
    BY <2>1, UpdateUserMatches
  <2>3. Counted /\ UNCHANGED books /\ UNCHANGED market
    <3>1. CASE MarkUserEmailVerified(u)
      BY <3>1, CallsCount DEF MarkUserEmailVerified, UpdateUser
    <3>2. CASE UpdateUserPassword(u, "new")
      BY <3>2, CallsCount DEF UpdateUserPassword, UpdateUser
    <3> QED
      BY <2>1, <3>1, <3>2
  <2> QED
    BY <2>2, <2>3, InvKept DEF Memory!AccountCall
<1>4. CASE \E u \in 1 .. MaxWrites, h \in TokenHashes, k \in TokenKinds : CreateAuthToken(u, h, k)
  <2>1. PICK u \in 1 .. MaxWrites, h \in TokenHashes, k \in TokenKinds : CreateAuthToken(u, h, k)
    BY <1>4
  <2>2. Memory!CreateAuthToken(u, h, k) /\ AccountsInv'
    BY <2>1, CreateAuthTokenMatches
  <2>3. Counted /\ UNCHANGED books /\ UNCHANGED market
    BY <2>1, CallsCount DEF CreateAuthToken
  <2> QED
    BY <2>2, <2>3, InvKept DEF Memory!AccountCall
<1>5. CASE \E h \in TokenHashes, k \in TokenKinds : GetAuthToken(h, k)
  <2>1. PICK h \in TokenHashes, k \in TokenKinds : GetAuthToken(h, k)
    BY <1>5
  <2>2. Memory!GetAuthToken(h, k)
    BY <2>1, GetAuthTokenMatches
  <2>3. Counted /\ UNCHANGED accounts /\ UNCHANGED books /\ UNCHANGED market
    BY <2>1, CallsCount DEF GetAuthToken
  <2> QED
    BY <2>2, <2>3, InvKept DEF Memory!AccountCall
<1>6. CASE \E i \in 1 .. MaxWrites : ConsumeAuthToken(i) \/ RevokeAuthToken(i)
  <2>1. PICK i \in 1 .. MaxWrites : ConsumeAuthToken(i) \/ RevokeAuthToken(i)
    BY <1>6
  <2>2. /\ Memory!ConsumeAuthToken(i) \/ Memory!RevokeAuthToken(i)
        /\ UNCHANGED accounts \/ AccountsInv'
    BY <2>1, ConsumeAuthTokenMatches, RevokeAuthTokenMatches
  <2>3. Counted /\ UNCHANGED books /\ UNCHANGED market
    <3>1. CASE ConsumeAuthToken(i)
      BY <3>1, CallsCount DEF ConsumeAuthToken, UpdateAuthToken, UpdateAuthTokens
    <3>2. CASE RevokeAuthToken(i)
      BY <3>2, CallsCount DEF RevokeAuthToken, UpdateAuthToken, UpdateAuthTokens
    <3> QED
      BY <2>1, <3>1, <3>2
  <2> QED
    BY <2>2, <2>3, InvKept DEF Memory!AccountCall
<1>7. CASE \E r \in users, k \in TokenKinds \cup {None} : RevokeUserTokens(r.id, k)
  <2>1. PICK r \in users, k \in TokenKinds \cup {None} : RevokeUserTokens(r.id, k)
    BY <1>7
  <2>2. Memory!RevokeUserTokens(r.id, k) /\ AccountsInv'
    BY <2>1, RevokeUserTokensMatches
  <2>3. Counted /\ UNCHANGED books /\ UNCHANGED market
    BY <2>1, CallsCount DEF RevokeUserTokens, UpdateAuthTokens
  <2>4. r.id \in 1 .. MaxWrites
    BY NumberOf DEF AccountsInv, UsersOk
  <2> QED
    BY <2>2, <2>3, <2>4, InvKept DEF Memory!AccountCall
<1> QED
  BY <1>1, <1>2, <1>3, <1>4, <1>5, <1>6, <1>7, <1>9 DEF AccountCall

(* Every call on portfolios.                                                 *)
LEMMA PortfolioStep ==
  ASSUME RepositoryInv, PortfolioCall
  PROVE  Memory!PortfolioCall /\ RepositoryInv'
<1>0. WritesOk /\ AccountsInv /\ BooksInv
  BY DEF RepositoryInv
<1> USE <1>0
<1>1. CASE \E r \in users, x \in NewPortfolios : Create(r.id, x.cash, x.positions, x.lots)
  <2>1. PICK r \in users, x \in NewPortfolios : Create(r.id, x.cash, x.positions, x.lots)
    BY <1>1
  <2>2. Memory!Create(r.id, x.cash, x.positions, x.lots) /\ BooksInv'
    <3>1. r.id \in IdsOf(users)
      BY DEF IdsOf
    <3> QED
      BY <2>1, <3>1, CreateMatches
  <2>3. Counted /\ UNCHANGED accounts /\ UNCHANGED market
    BY <2>1, CallsCount DEF Create
  <2>4. r.id \in 1 .. MaxWrites
    BY NumberOf DEF AccountsInv, UsersOk
  <2> QED
    BY <2>2, <2>3, <2>4, InvKept DEF Memory!PortfolioCall
<1>2. CASE \E u \in 1 .. MaxWrites : ListPortfolios(u)
  <2>1. PICK u \in 1 .. MaxWrites : ListPortfolios(u)
    BY <1>2
  <2>2. Memory!ListPortfolios(u)
    BY <2>1, ListPortfoliosMatches
  <2>3. Counted /\ UNCHANGED accounts /\ UNCHANGED books /\ UNCHANGED market
    BY <2>1, CallsCount DEF ListPortfolios
  <2> QED
    BY <2>2, <2>3, InvKept DEF Memory!PortfolioCall
<1>3. CASE \E p \in 1 .. MaxWrites : Get(p)
  <2>1. PICK p \in 1 .. MaxWrites : Get(p)
    BY <1>3
  <2>2. Memory!Get(p)
    BY <2>1, GetMatches
  <2>3. Counted /\ UNCHANGED accounts /\ UNCHANGED books /\ UNCHANGED market
    BY <2>1, CallsCount DEF Get
  <2> QED
    BY <2>2, <2>3, InvKept DEF Memory!PortfolioCall
<1> QED
  BY <1>1, <1>2, <1>3 DEF PortfolioCall

(* Every call on what a portfolio holds.                                     *)
LEMMA HoldingStep ==
  ASSUME RepositoryInv, NEW p \in 1 .. MaxWrites, HoldingCall(p)
  PROVE  Memory!HoldingCall(p) /\ RepositoryInv'
<1>0. WritesOk /\ BooksInv
  BY DEF RepositoryInv
<1> USE <1>0
<1>1. CASE ListLots(p)
  <2>2. Memory!ListLots(p)
    BY <1>1, ListLotsMatches
  <2>3. Counted /\ UNCHANGED accounts /\ UNCHANGED books /\ UNCHANGED market
    BY <1>1, CallsCount DEF ListLots
  <2> QED
    BY <2>2, <2>3, InvKept DEF Memory!HoldingCall
<1>2. CASE \E P \in PositionSets : ReplacePositions(p, P)
  <2>1. PICK P \in PositionSets : ReplacePositions(p, P)
    BY <1>2
  <2>2. Memory!ReplacePositions(p, P) /\ BooksInv'
    BY <2>1, ReplacePositionsMatches
  <2>3. Counted /\ UNCHANGED accounts /\ UNCHANGED market
    BY <2>1, CallsCount DEF ReplacePositions
  <2> QED
    BY <2>2, <2>3, InvKept DEF Memory!HoldingCall
<1>3. CASE \E L \in LotSets : AddLots(p, L) \/ ReplaceLots(p, L)
  <2>1. PICK L \in LotSets : AddLots(p, L) \/ ReplaceLots(p, L)
    BY <1>3
  <2>2. (Memory!AddLots(p, L) \/ Memory!ReplaceLots(p, L)) /\ BooksInv'
    BY <2>1, AddLotsMatches, ReplaceLotsMatches
  <2>3. Counted /\ UNCHANGED accounts /\ UNCHANGED market
    BY <2>1, CallsCount DEF AddLots, ReplaceLots, SetLots
  <2> QED
    BY <2>2, <2>3, InvKept DEF Memory!HoldingCall
<1>4. CASE EnqueueBackgroundJob(p, "rebuild_positions")
  <2>2. Memory!EnqueueBackgroundJob(p, "rebuild_positions") /\ BooksInv'
    BY <1>4, EnqueueMatches
  <2>3. Counted /\ UNCHANGED accounts /\ UNCHANGED market
    BY <1>4, CallsCount DEF EnqueueBackgroundJob
  <2> QED
    BY <2>2, <2>3, InvKept DEF Memory!HoldingCall
<1>5. CASE \E i \in 1 .. MaxWrites : CompleteBackgroundJob(p, i, "completed")
  <2>1. PICK i \in 1 .. MaxWrites : CompleteBackgroundJob(p, i, "completed")
    BY <1>5
  <2>2. Memory!CompleteBackgroundJob(p, i, "completed") /\ (UNCHANGED books \/ BooksInv')
    BY <2>1, CompleteMatches
  <2>3. Counted /\ UNCHANGED accounts /\ UNCHANGED market
    BY <2>1, CallsCount DEF CompleteBackgroundJob
  <2> QED
    BY <2>2, <2>3, InvKept DEF Memory!HoldingCall
<1> QED
  BY <1>1, <1>2, <1>3, <1>4, <1>5 DEF HoldingCall

(* Every call on the ledgers of a portfolio.                                 *)
LEMMA LedgerStep ==
  ASSUME RepositoryInv, NEW p \in 1 .. MaxWrites, LedgerCall(p)
  PROVE  Memory!LedgerCall(p) /\ RepositoryInv'
<1>0. WritesOk /\ BooksInv
  BY DEF RepositoryInv
<1> USE <1>0
<1>1. CASE ListCashTransactions(p) \/ ListTradeTransactions(p) \/ ListValuationSnapshots(p)
             \/ GetPortfolioSettings(p)
  <2>2. Memory!ListCashTransactions(p) \/ Memory!ListTradeTransactions(p)
          \/ Memory!ListValuationSnapshots(p) \/ Memory!GetPortfolioSettings(p)
    BY <1>1, ListCashMatches, ListTradesMatches, ListValuationsMatches, GetSettingsMatches
  <2>3. Counted /\ UNCHANGED accounts /\ UNCHANGED books /\ UNCHANGED market
    BY <1>1, CallsCount DEF ListCashTransactions, ListTradeTransactions, ListValuationSnapshots,
                            GetPortfolioSettings
  <2> QED
    BY <2>2, <2>3, InvKept DEF Memory!LedgerCall
<1>2. CASE \E n \in Amounts : UpdateCash(p, n)
  <2>1. PICK n \in Amounts : UpdateCash(p, n)
    BY <1>2
  <2>2. Memory!UpdateCash(p, n) /\ BooksInv'
    BY <2>1, UpdateCashMatches
  <2>3. Counted /\ UNCHANGED accounts /\ UNCHANGED market
    BY <2>1, CallsCount DEF UpdateCash
  <2> QED
    BY <2>2, <2>3, InvKept DEF Memory!LedgerCall
<1>3. CASE \E m \in Moves : AddCashTransaction(p, m)
  <2>1. PICK m \in Moves : AddCashTransaction(p, m)
    BY <1>3
  <2>2. Memory!AddCashTransaction(p, m) /\ BooksInv'
    BY <2>1, AddCashMatches
  <2>3. Counted /\ UNCHANGED accounts /\ UNCHANGED market
    BY <2>1, CallsCount DEF AddCashTransaction
  <2> QED
    BY <2>2, <2>3, InvKept DEF Memory!LedgerCall
<1>4. CASE \E t \in Trades : AddTradeTransaction(p, t)
  <2>1. PICK t \in Trades : AddTradeTransaction(p, t)
    BY <1>4
  <2>2. Memory!AddTradeTransaction(p, t) /\ BooksInv'
    BY <2>1, AddTradeMatches
  <2>3. Counted /\ UNCHANGED accounts /\ UNCHANGED market
    BY <2>1, CallsCount DEF AddTradeTransaction
  <2> QED
    BY <2>2, <2>3, InvKept DEF Memory!LedgerCall
<1>5. CASE \E v \in Valuations : AddValuationSnapshot(p, v)
  <2>1. PICK v \in Valuations : AddValuationSnapshot(p, v)
    BY <1>5
  <2>2. Memory!AddValuationSnapshot(p, v) /\ BooksInv'
    BY <2>1, AddValuationMatches
  <2>3. Counted /\ UNCHANGED accounts /\ UNCHANGED market
    BY <2>1, CallsCount DEF AddValuationSnapshot
  <2> QED
    BY <2>2, <2>3, InvKept DEF Memory!LedgerCall
<1>6. CASE \E s \in SettingsRows : UpsertPortfolioSettings(p, s)
  <2>1. PICK s \in SettingsRows : UpsertPortfolioSettings(p, s)
    BY <1>6
  <2>2. Memory!UpsertPortfolioSettings(p, s) /\ BooksInv'
    BY <2>1, UpsertSettingsMatches
  <2>3. Counted /\ UNCHANGED accounts /\ UNCHANGED market
    BY <2>1, CallsCount DEF UpsertPortfolioSettings
  <2> QED
    BY <2>2, <2>3, InvKept DEF Memory!LedgerCall
<1> QED
  BY <1>1, <1>2, <1>3, <1>4, <1>5, <1>6 DEF LedgerCall

(* Every call on market data.                                                *)
LEMMA MarketStep ==
  ASSUME RepositoryInv, MarketCall
  PROVE  Memory!MarketCall /\ RepositoryInv'
<1>0. WritesOk /\ MarketInv
  BY DEF RepositoryInv
<1> USE <1>0
<1>1. CASE \E l \in QuoteLists : UpsertMarketQuotes(l)
  <2>1. PICK l \in QuoteLists : UpsertMarketQuotes(l)
    BY <1>1
  <2>2. Memory!UpsertMarketQuotes(l) /\ MarketInv'
    BY <2>1, UpsertQuotesMatches
  <2>3. Counted /\ UNCHANGED accounts /\ UNCHANGED books
    BY <2>1, CallsCount DEF UpsertMarketQuotes
  <2> QED
    BY <2>2, <2>3, InvKept DEF Memory!MarketCall
<1>2. CASE \E l \in TickerLists, t \in Times \cup {None} : GetMarketQuotes(l, t)
  <2>1. PICK l \in TickerLists, t \in Times \cup {None} : GetMarketQuotes(l, t)
    BY <1>2
  <2>2. Memory!GetMarketQuotes(l, t)
    BY <2>1, GetQuotesMatches
  <2>3. Counted /\ UNCHANGED accounts /\ UNCHANGED books /\ UNCHANGED market
    BY <2>1, CallsCount DEF GetMarketQuotes
  <2> QED
    BY <2>2, <2>3, InvKept DEF Memory!MarketCall
<1>3. CASE \E o \in Options : AddOptionChainSnapshot(o)
  <2>1. PICK o \in Options : AddOptionChainSnapshot(o)
    BY <1>3
  <2>2. Memory!AddOptionChainSnapshot(o) /\ (UNCHANGED market \/ MarketInv')
    BY <2>1, AddOptionMatches
  <2>3. Counted /\ UNCHANGED accounts /\ UNCHANGED books
    BY <2>1, CallsCount DEF AddOptionChainSnapshot
  <2> QED
    BY <2>2, <2>3, InvKept DEF Memory!MarketCall
<1>4. CASE \E l \in TickerLists, e \in Expiries \cup {None}, t \in Times \cup {None} :
             ListOptionChainSnapshots(Head(l), e, t)
  <2>1. PICK l \in TickerLists, e \in Expiries \cup {None}, t \in Times \cup {None} :
          ListOptionChainSnapshots(Head(l), e, t)
    BY <1>4
  <2>2. Memory!ListOptionChainSnapshots(Head(l), e, t)
    BY <2>1, ListOptionsMatches
  <2>3. Counted /\ UNCHANGED accounts /\ UNCHANGED books /\ UNCHANGED market
    BY <2>1, CallsCount DEF ListOptionChainSnapshots
  <2> QED
    BY <2>2, <2>3, InvKept DEF Memory!MarketCall
<1>5. CASE \E t \in Times : PurgeOptionChainSnapshots(t)
  <2>1. PICK t \in Times : PurgeOptionChainSnapshots(t)
    BY <1>5
  <2>2. Memory!PurgeOptionChainSnapshots(t) /\ MarketInv'
    BY <2>1, PurgeOptionsMatches
  <2>3. Counted /\ UNCHANGED accounts /\ UNCHANGED books
    BY <2>1, CallsCount DEF PurgeOptionChainSnapshots
  <2> QED
    BY <2>2, <2>3, InvKept DEF Memory!MarketCall
<1> QED
  BY <1>1, <1>2, <1>3, <1>4, <1>5 DEF MarketCall

(* clear: nothing is left, since every row belongs to a user or a portfolio. *)
LEMMA ClearStep ==
  ASSUME RepositoryInv, Clear
  PROVE  Memory!Clear /\ RepositoryInv'
<1>1. /\ Write(<<"clear">>, None) /\ users' = {} /\ portfolios' = {}
      /\ market_quotes' = {} /\ option_chain_snapshots' = {}
  BY DEF Clear, DeleteUsers, DeletePortfolios
<1>2. auth_tokens' = {}
  BY DEF Clear, DeleteUsers, RepositoryInv, AccountsInv, TokensOk, IdsOf
<1>3. /\ portfolio_positions' = {} /\ position_lots' = {} /\ background_jobs' = {}
      /\ cash_transactions' = {} /\ trade_transactions' = {} /\ valuation_snapshots' = {}
      /\ portfolio_settings' = {}
  BY DEF Clear, DeletePortfolios, RepositoryInv, BooksInv, OwnersOk, Owned, IdsOf
<1>4. Cleared'
  BY <1>1, <1>2, <1>3 DEF Cleared
<1>5. NoEntries' /\ AccountsInv' /\ BooksInv' /\ MarketInv'
  BY <1>4, ClearedTables, PTL
<1>6. Memory!Write(<<"clear">>, None) /\ Counted
  BY <1>1, WriteMatches, CallsCount
<1> QED
  BY <1>5, <1>6, InvKept DEF Memory!Clear, NoEntries

(* At the start.                                                             *)
LEMMA Started ==
  ASSUME Init
  PROVE  RepositoryInv /\ Memory!Init
<1>1. Cleared
  BY DEF Init, Cleared
<1> QED
  BY <1>1, ClearedTables, RepositoryInputs DEF Init, RepositoryInv, WritesOk, Memory!Init, NoEntries

(* Every call.                                                               *)
LEMMA Stepped ==
  ASSUME RepositoryInv, Next
  PROVE  Memory!Next /\ RepositoryInv'
  BY AccountStep, PortfolioStep, HoldingStep, LedgerStep, MarketStep, ClearStep
     DEF Next, Memory!Next

(* No call.                                                                  *)
LEMMA Stuttered ==
  ASSUME RepositoryInv, UNCHANGED vars
  PROVE  RepositoryInv'
<1>1. Counted /\ UNCHANGED accounts /\ UNCHANGED books /\ UNCHANGED market
  BY DEF vars, Counted
<1> QED
  BY <1>1, InvKept
(* What the tables hold after any calls keeps RepositoryInv: users, tokens,  *)
(* portfolios, quotes and snapshots each once by every key, and no row that  *)
(* belongs to nobody (the constraints of app/db/schema.sql, which the calls  *)
(* never run into).                                                          *)
THEOREM TablesConsistent == Spec => []RepositoryInv
<1>1. Init => RepositoryInv
  BY Started
<1>2. RepositoryInv /\ [Next]_vars => RepositoryInv'
  BY Stepped, Stuttered
<1> QED
  BY <1>1, <1>2, PTL DEF Spec

(* A deployment answers as the tests' repository does, whatever the inputs   *)
(* and the calls: every transaction of PostgresPortfolioRepository is the    *)
(* call of InMemoryPortfolioRepository with the same answer.                 *)
THEOREM RepositoriesAgree == Spec => PostgresImplementsMemory
<1>1. Init => Memory!Init
  BY Started
<1>2. RepositoryInv /\ [Next]_vars => [vars' # vars => Memory!Next]_vars
  BY Stepped
<1> QED
  BY <1>1, <1>2, TablesConsistent, PTL DEF Spec, PostgresImplementsMemory
=============================================================================
