-------------------------- MODULE AuthTokensProofs --------------------------
(***************************************************************************)
(* Proofs about AuthTokens, for any users, API threads and tokens.         *)
(***************************************************************************)
EXTENDS AuthTokens, TLAPS

(* A chain of rotations starts with a row, and so does every history entry.  *)
RowsFit ==
  /\ \A i \in TokenIds : Issued(i) => Issued(tokens[i].family)
  /\ \A i \in shared : Issued(i)

(* A request goes on with a row of the kind and user it looked up.           *)
RequestFits(t) ==
  /\ req[t].at \in {"revoke", "logout"} => req[t].kind = "refresh"
  /\ req[t].at \in {"write", "sweep"} => req[t].kind = "password_reset"
  /\ req[t].at = "verify" => req[t].kind = "email_verification"
  /\ req[t].at = "consume" => req[t].kind \in OneTimeKinds
  /\ req[t].at \notin {"idle", "mint"} => req[t].tok \in TokenIds
  /\ Busy(t) /\ req[t].tok # "new" =>
       /\ Issued(req[t].tok)
       /\ tokens[req[t].tok].kind = req[t].kind
       /\ tokens[req[t].tok].user = req[t].user
RequestsFit == \A t \in Threads : RequestFits(t)

(* A one-time token nobody shares: at most one request holds it, it has had  *)
(* no effect while that request is to have it, and once it had it, it is     *)
(* consumed or about to be.                                                  *)
OneTimeInv ==
  \A i \in TokenIds \ shared :
    Issued(i) /\ tokens[i].kind \in OneTimeKinds =>
      /\ \A s, t \in Threads : Holds(s, i) /\ Holds(t, i) => s = t
      /\ \A t \in Threads :
           Holds(t, i) /\ req[t].at \in {"write", "verify"} => tokens[i].uses = 0
      /\ tokens[i].uses <= 1
      /\ tokens[i].uses = 1 =>
           \/ tokens[i].consumed
           \/ \E t \in Threads : Holds(t, i) /\ req[t].at = "consume"

(* Request t is rotating the chain f.                                        *)
Rotates(t, f) ==
  /\ req[t].at \in {"revoke", "mint"}
  /\ req[t].tok # "new"
  /\ tokens[req[t].tok].family = f
Forked(f) == \E k \in shared : tokens[k].family = f

(* Of a chain that no two requests forked there is one active token, or one  *)
(* request that replaces it, never both.                                     *)
RotationInv ==
  /\ \A s, t \in Threads, f \in TokenIds :
       Rotates(s, f) /\ Rotates(t, f) /\ s # t => Forked(f)
  /\ \A t \in Threads, i \in TokenIds :
       ActiveToken(i, "refresh") /\ Rotates(t, tokens[i].family) =>
         Forked(tokens[i].family) \/ (req[t].at = "revoke" /\ req[t].tok = i)
  /\ OneTokenPerSignIn

(* Outside a reset, sign-ins under way used the password now in force too.   *)
SessionsInv ==
  \A u \in Users \ raced :
    (\A t \in Threads : ~Resetting(t, u)) =>
      /\ \A t \in Threads : SigningIn(t, u) => req[t].era = password[u]
      /\ \A i \in TokenIds :
           ActiveToken(i, "refresh") /\ tokens[i].user = u => tokens[i].era = password[u]

IInv == TypeOK /\ RowsFit /\ RequestsFit /\ OneTimeInv /\ RotationInv /\ SessionsInv

-----------------------------------------------------------------------------
(* The records of the model.                                                 *)

LEMMA TokenRecord ==
  ASSUME TypeOK, NEW i \in TokenIds
  PROVE  /\ tokens[i] \in Token \cup {NoToken}
         /\ Issued(i) => tokens[i] \in Token
         /\ ~Issued(i) => tokens[i] = NoToken
<1>1. tokens[i] \in Token \cup {NoToken}
  BY DEF TypeOK
<1>2. tokens[i] \in Token => Issued(i)
  BY DEF Token, Kinds, OneTimeKinds, Issued
<1>3. tokens[i] = NoToken => ~Issued(i)
  BY DEF NoToken, Issued
<1>4. QED
  BY <1>1, <1>2, <1>3

LEMMA RequestRecord ==
  ASSUME TypeOK, NEW t \in Threads
  PROVE  /\ req[t] \in Request \cup {Idle}
         /\ Busy(t) => req[t] \in Request
         /\ ~Busy(t) => req[t] = Idle
<1>1. req[t] \in Request \cup {Idle}
  BY DEF TypeOK
<1>2. req[t] \in Request => Busy(t)
  BY DEF Request, Steps, Busy
<1>3. req[t] = Idle => ~Busy(t)
  BY DEF Idle, Busy
<1>4. QED
  BY <1>1, <1>2, <1>3

(* What a step does to the requests.                                         *)
LEMMA BeginEffect ==
  ASSUME TypeOK, NEW t \in Threads, NEW at \in Steps, NEW u \in Users,
         NEW i \in Given, NEW kind \in Kinds, NEW era \in Nat,
         Begin(t, at, u, i, kind, era)
  PROVE  /\ ~Busy(t)
         /\ req' \in [Threads -> Request \cup {Idle}]
         /\ req'[t].at = at
         /\ req'[t].user = u
         /\ req'[t].tok = i
         /\ req'[t].kind = kind
         /\ req'[t].era = era
         /\ \A s \in Threads \ {t} : req'[s] = req[s]
<1> DEFINE new == [at |-> at, user |-> u, tok |-> i, kind |-> kind, era |-> era]
<1>1. /\ new \in Request
      /\ new.at = at
      /\ new.user = u
      /\ new.tok = i
      /\ new.kind = kind
      /\ new.era = era
  BY DEF Request
<1>2. req' = [req EXCEPT ![t] = new] /\ ~Busy(t)
  BY DEF Begin
<1> HIDE DEF new
<1>3. QED
  BY <1>1, <1>2 DEF TypeOK

LEMMA ContinueEffect ==
  ASSUME TypeOK, NEW t \in Threads, NEW at \in Steps, Busy(t), Continue(t, at)
  PROVE  /\ req' \in [Threads -> Request \cup {Idle}]
         /\ req'[t].at = at
         /\ req'[t].user = req[t].user
         /\ req'[t].tok = req[t].tok
         /\ req'[t].kind = req[t].kind
         /\ req'[t].era = req[t].era
         /\ \A s \in Threads \ {t} : req'[s] = req[s]
<1> DEFINE new == [req[t] EXCEPT !.at = at]
<1>1. req[t] \in Request
  BY RequestRecord
<1>2. /\ new \in Request
      /\ new.at = at
      /\ new.user = req[t].user
      /\ new.tok = req[t].tok
      /\ new.kind = req[t].kind
      /\ new.era = req[t].era
  BY <1>1 DEF Request
<1>3. req' = [req EXCEPT ![t] = new]
  BY DEF Continue
<1> HIDE DEF new
<1>4. QED
  BY <1>2, <1>3 DEF TypeOK

LEMMA AnswerEffect ==
  ASSUME TypeOK, NEW t \in Threads, Answer(t)
  PROVE  /\ req' \in [Threads -> Request \cup {Idle}]
         /\ req'[t] = Idle
         /\ req'[t].at = "idle"
         /\ \A s \in Threads \ {t} : req'[s] = req[s]
<1>1. req' = [req EXCEPT ![t] = Idle] /\ Idle.at = "idle"
  BY DEF Answer, Idle
<1>2. QED
  BY <1>1 DEF TypeOK

(* What a step does to the rows: they stay what they are, and none comes     *)
(* back to life.                                                             *)
Aged ==
  /\ tokens' \in [TokenIds -> Token \cup {NoToken}]
  /\ \A i \in TokenIds :
       /\ tokens'[i].kind = tokens[i].kind
       /\ Issued(i) => /\ tokens'[i].user = tokens[i].user
                       /\ tokens'[i].family = tokens[i].family
                       /\ tokens'[i].era = tokens[i].era
       /\ IsActive(i)' => IsActive(i)

LEMMA RevokeEffect ==
  ASSUME TypeOK, NEW i \in TokenIds, Issued(i),
         tokens' = [tokens EXCEPT ![i].revoked = TRUE]
  PROVE  /\ Aged
         /\ ~IsActive(i)'
         /\ \A j \in TokenIds : Issued(j) =>
              /\ tokens'[j].uses = tokens[j].uses
              /\ tokens'[j].consumed = tokens[j].consumed
<1> DEFINE new == [tokens[i] EXCEPT !.revoked = TRUE]
<1>1. /\ new \in Token
      /\ new.revoked
      /\ new.kind = tokens[i].kind
      /\ new.user = tokens[i].user
      /\ new.family = tokens[i].family
      /\ new.era = tokens[i].era
      /\ new.uses = tokens[i].uses
      /\ new.consumed = tokens[i].consumed
  BY TokenRecord DEF Token
<1>2. tokens' = [tokens EXCEPT ![i] = new]
  OBVIOUS
<1> HIDE DEF new
<1>3. tokens' \in [TokenIds -> Token \cup {NoToken}] /\ tokens'[i] = new
  BY <1>1, <1>2 DEF TypeOK
<1>4. \A j \in TokenIds \ {i} : tokens'[j] = tokens[j]
  BY <1>2 DEF TypeOK
<1>5. ~IsActive(i)'
  BY <1>1, <1>3 DEF IsActive
<1>6. \A j \in TokenIds \ {i} : IsActive(j)' = IsActive(j)
  BY <1>4 DEF IsActive, Issued
<1>7. QED
  BY <1>1, <1>3, <1>4, <1>5, <1>6 DEF Aged

LEMMA ConsumeEffect ==
  ASSUME TypeOK, NEW i \in TokenIds, Issued(i),
         tokens' = [tokens EXCEPT ![i].consumed = TRUE]
  PROVE  /\ Aged
         /\ tokens'[i].consumed
         /\ \A j \in TokenIds : Issued(j) =>
              /\ tokens'[j].uses = tokens[j].uses
              /\ tokens[j].consumed => tokens'[j].consumed
<1> DEFINE new == [tokens[i] EXCEPT !.consumed = TRUE]
<1>1. /\ new \in Token
      /\ new.consumed
      /\ new.kind = tokens[i].kind
      /\ new.user = tokens[i].user
      /\ new.family = tokens[i].family
      /\ new.era = tokens[i].era
      /\ new.uses = tokens[i].uses
  BY TokenRecord DEF Token
<1>2. tokens' = [tokens EXCEPT ![i] = new]
  OBVIOUS
<1> HIDE DEF new
<1>3. tokens' \in [TokenIds -> Token \cup {NoToken}] /\ tokens'[i] = new
  BY <1>1, <1>2 DEF TypeOK
<1>4. \A j \in TokenIds \ {i} : tokens'[j] = tokens[j]
  BY <1>2 DEF TypeOK
<1>5. ~IsActive(i)'
  BY <1>1, <1>3 DEF IsActive
<1>6. \A j \in TokenIds \ {i} : IsActive(j)' = IsActive(j)
  BY <1>4 DEF IsActive, Issued
<1>7. QED
  BY <1>1, <1>3, <1>4, <1>5, <1>6 DEF Aged

LEMMA ExpireEffect ==
  ASSUME TypeOK, NEW i \in TokenIds, Issued(i),
         tokens' = [tokens EXCEPT ![i].expired = TRUE]
  PROVE  /\ Aged
         /\ \A j \in TokenIds : Issued(j) =>
              /\ tokens'[j].uses = tokens[j].uses
              /\ tokens'[j].consumed = tokens[j].consumed
<1> DEFINE new == [tokens[i] EXCEPT !.expired = TRUE]
<1>1. /\ new \in Token
      /\ new.expired
      /\ new.kind = tokens[i].kind
      /\ new.user = tokens[i].user
      /\ new.family = tokens[i].family
      /\ new.era = tokens[i].era
      /\ new.uses = tokens[i].uses
      /\ new.consumed = tokens[i].consumed
  BY TokenRecord DEF Token
<1>2. tokens' = [tokens EXCEPT ![i] = new]
  OBVIOUS
<1> HIDE DEF new
<1>3. tokens' \in [TokenIds -> Token \cup {NoToken}] /\ tokens'[i] = new
  BY <1>1, <1>2 DEF TypeOK
<1>4. \A j \in TokenIds \ {i} : tokens'[j] = tokens[j]
  BY <1>2 DEF TypeOK
<1>5. ~IsActive(i)'
  BY <1>1, <1>3 DEF IsActive
<1>6. \A j \in TokenIds \ {i} : IsActive(j)' = IsActive(j)
  BY <1>4 DEF IsActive, Issued
<1>7. QED
  BY <1>1, <1>3, <1>4, <1>5, <1>6 DEF Aged

LEMMA UseEffect ==
  ASSUME TypeOK, NEW i \in TokenIds, Issued(i),
         tokens' = [tokens EXCEPT ![i].uses = OnceMore(@)]
  PROVE  /\ Aged
         /\ tokens[i].uses = 0 => tokens'[i].uses = 1
         /\ tokens'[i].consumed = tokens[i].consumed
         /\ \A j \in TokenIds \ {i} : tokens'[j] = tokens[j]
<1> DEFINE new == [tokens[i] EXCEPT !.uses = OnceMore(tokens[i].uses)]
<1>1. OnceMore(tokens[i].uses) \in 0 .. 2 /\ OnceMore(0) = 1
  BY TokenRecord DEF Token, OnceMore
<1>2. /\ new \in Token
      /\ new.uses = OnceMore(tokens[i].uses)
      /\ new.kind = tokens[i].kind
      /\ new.user = tokens[i].user
      /\ new.family = tokens[i].family
      /\ new.era = tokens[i].era
      /\ new.consumed = tokens[i].consumed
      /\ new.revoked = tokens[i].revoked
      /\ new.expired = tokens[i].expired
  BY <1>1, TokenRecord DEF Token
<1>3. tokens' = [tokens EXCEPT ![i] = new]
  OBVIOUS
<1> HIDE DEF new
<1>4. tokens' \in [TokenIds -> Token \cup {NoToken}] /\ tokens'[i] = new
  BY <1>2, <1>3 DEF TypeOK
<1>5. \A j \in TokenIds \ {i} : tokens'[j] = tokens[j]
  BY <1>3 DEF TypeOK
<1>6. \A j \in TokenIds : IsActive(j)' = IsActive(j)
  BY <1>2, <1>4, <1>5 DEF IsActive, Issued
<1>7. QED
  BY <1>1, <1>2, <1>4, <1>5, <1>6 DEF Aged

LEMMA SweepEffect ==
  ASSUME TypeOK, NEW u \in Users,
         tokens' = [i \in TokenIds |->
            IF Issued(i) /\ tokens[i].user = u /\ tokens[i].kind = "refresh"
            THEN [tokens[i] EXCEPT !.revoked = TRUE] ELSE tokens[i]]
  PROVE  /\ Aged
         /\ \A i \in TokenIds :
              tokens'[i].user = u => ~ActiveToken(i, "refresh")'
         /\ \A j \in TokenIds : Issued(j) =>
              /\ tokens'[j].uses = tokens[j].uses
              /\ tokens'[j].consumed = tokens[j].consumed
<1> DEFINE new(i) == [tokens[i] EXCEPT !.revoked = TRUE]
           swept(i) == Issued(i) /\ tokens[i].user = u /\ tokens[i].kind = "refresh"
<1>1. ASSUME NEW i \in TokenIds, swept(i)
      PROVE  /\ new(i) \in Token
             /\ new(i).revoked
             /\ new(i).kind = tokens[i].kind
             /\ new(i).user = tokens[i].user
             /\ new(i).family = tokens[i].family
             /\ new(i).era = tokens[i].era
             /\ new(i).uses = tokens[i].uses
             /\ new(i).consumed = tokens[i].consumed
  BY <1>1, TokenRecord DEF Token
<1>2. \A i \in TokenIds : tokens'[i] = IF swept(i) THEN new(i) ELSE tokens[i]
  OBVIOUS
<1>3. DOMAIN tokens' = TokenIds /\ tokens' = [i \in TokenIds |-> tokens'[i]]
  OBVIOUS
<1> HIDE DEF new, swept
<1>4. \A i \in TokenIds : tokens'[i] \in Token \cup {NoToken}
  BY <1>1, <1>2, TokenRecord
<1>5. tokens' \in [TokenIds -> Token \cup {NoToken}]
  BY <1>3, <1>4
<1>6. \A i \in TokenIds : swept(i) => ~IsActive(i)'
  BY <1>1, <1>2 DEF IsActive
<1>7. \A i \in TokenIds : ~swept(i) => IsActive(i)' = IsActive(i)
  BY <1>2 DEF IsActive, Issued
<1>8. ASSUME NEW i \in TokenIds, tokens'[i].user = u, ActiveToken(i, "refresh")'
      PROVE  FALSE
  <2>1. ~swept(i) /\ tokens'[i] = tokens[i]
    BY <1>2, <1>6, <1>8 DEF ActiveToken
  <2>2. QED
    BY <1>8, <2>1 DEF swept, ActiveToken, IsActive, Issued
<1>9. Aged
  BY <1>1, <1>2, <1>5, <1>6, <1>7 DEF Aged
<1>10. QED
  BY <1>1, <1>2, <1>8, <1>9

-----------------------------------------------------------------------------
(* What keeps each part of the invariant.                                    *)

LEMMA AgedSame ==
  ASSUME TypeOK, UNCHANGED tokens
  PROVE  Aged
BY DEF TypeOK, Aged, IsActive, Issued

LEMMA RowsKept ==
  ASSUME TypeOK, RowsFit, Aged, shared' \subseteq TokenIds,
         \A i \in shared' : i \in shared \/ Issued(i)
  PROVE  RowsFit'
BY TokenRecord DEF RowsFit, Aged, Issued, Token

(* The other requests stay fit when rows age.                                *)
LEMMA RequestsKept ==
  ASSUME TypeOK, RequestsFit, Aged, NEW t \in Threads,
         \A s \in Threads \ {t} : req'[s] = req[s],
         RequestFits(t)'
  PROVE  RequestsFit'
<1> SUFFICES ASSUME NEW s \in Threads \ {t}
             PROVE  RequestFits(s)'
  BY DEF RequestsFit
<1>1. RequestFits(s) /\ req'[s] = req[s]
  BY DEF RequestsFit
<1>2. Busy(s) /\ req[s].tok # "new" => req[s].tok \in TokenIds
  BY RequestRecord DEF Request, Given
<1>3. QED
  BY <1>1, <1>2 DEF RequestFits, Busy, Aged, Issued

LEMMA RotationKept ==
  ASSUME TypeOK, RowsFit, RequestsFit, RotationInv, Aged, shared \subseteq shared',
         \A s \in Threads : req'[s].at \in {"revoke", "mint"} /\ req'[s].tok # "new" =>
           /\ req[s].at \in {"revoke", "mint"}
           /\ req'[s].tok = req[s].tok
           /\ req'[s].at = req[s].at \/ ~IsActive(req[s].tok)'
  PROVE  RotationInv'
<1>1. \A f \in TokenIds : Forked(f) => Forked(f)'
  BY DEF Forked, RowsFit, Aged, TypeOK
<1>2. \A s \in Threads, f \in TokenIds : Rotates(s, f)' =>
        Rotates(s, f) /\ (req'[s].at = req[s].at \/ ~IsActive(req[s].tok)')
  <2> SUFFICES ASSUME NEW s \in Threads, NEW f \in TokenIds, Rotates(s, f)'
               PROVE  Rotates(s, f) /\ (req'[s].at = req[s].at \/ ~IsActive(req[s].tok)')
    OBVIOUS
  <2>1. /\ req[s].at \in {"revoke", "mint"}
        /\ req[s].tok # "new"
        /\ req'[s].tok = req[s].tok
        /\ req'[s].at = req[s].at \/ ~IsActive(req[s].tok)'
    BY DEF Rotates
  <2>2. req[s].tok \in TokenIds /\ Issued(req[s].tok)
    BY <2>1, RequestRecord DEF Request, Given, RequestsFit, RequestFits, Busy
  <2>3. QED
    BY <2>1, <2>2 DEF Rotates, Aged
<1>3. \A i \in TokenIds : ActiveToken(i, "refresh")' =>
        /\ ActiveToken(i, "refresh")
        /\ tokens'[i].family = tokens[i].family
        /\ tokens[i].family \in TokenIds
  BY TokenRecord DEF ActiveToken, Aged, IsActive, Token
<1>4. \A s, t \in Threads, f \in TokenIds :
        Rotates(s, f)' /\ Rotates(t, f)' /\ s # t => Forked(f)'
  BY <1>1, <1>2 DEF RotationInv
<1>5. ASSUME NEW t \in Threads, NEW i \in TokenIds,
             ActiveToken(i, "refresh")', Rotates(t, tokens[i].family)'
      PROVE  Forked(tokens[i].family)' \/ (req'[t].at = "revoke" /\ req'[t].tok = i)
  <2> QED
  BY <1>1, <1>2, <1>3, <1>5 DEF RotationInv, Rotates, ActiveToken
<1>6. OneTokenPerSignIn'
  BY <1>1, <1>3 DEF RotationInv, OneTokenPerSignIn, Forked
<1>7. QED
  BY <1>4, <1>5, <1>6 DEF RotationInv

LEMMA OneTimeKept ==
  ASSUME TypeOK, OneTimeInv, Aged, shared \subseteq shared',
         \A i \in TokenIds : Issued(i) =>
           tokens'[i].uses = tokens[i].uses /\ (tokens[i].consumed => tokens'[i].consumed),
         \A s \in Threads, i \in TokenIds :
           tokens[i].kind \in OneTimeKinds =>
             /\ Holds(s, i)' => Holds(s, i)
             /\ Holds(s, i)' /\ req'[s].at \in {"write", "verify"} => req[s].at = req'[s].at
             /\ Holds(s, i) /\ req[s].at = "consume" =>
                  \/ i \in shared'
                  \/ tokens'[i].consumed
                  \/ Holds(s, i)' /\ req'[s].at = "consume"
  PROVE  OneTimeInv'
<1> SUFFICES ASSUME NEW i \in TokenIds \ shared', Issued(i)', tokens'[i].kind \in OneTimeKinds
             PROVE  /\ \A s, t \in Threads : Holds(s, i)' /\ Holds(t, i)' => s = t
                    /\ \A t \in Threads :
                         Holds(t, i)' /\ req'[t].at \in {"write", "verify"} => tokens'[i].uses = 0
                    /\ tokens'[i].uses <= 1
                    /\ tokens'[i].uses = 1 =>
                         \/ tokens'[i].consumed
                         \/ \E t \in Threads : Holds(t, i)' /\ req'[t].at = "consume"
  BY DEF OneTimeInv
<1>1. i \in TokenIds \ shared /\ Issued(i) /\ tokens[i].kind \in OneTimeKinds
  BY DEF Aged, Issued
<1>2. QED
  BY <1>1 DEF OneTimeInv

LEMMA SessionsKept ==
  ASSUME TypeOK, SessionsInv, Aged, raced \subseteq raced', UNCHANGED password,
         \A s \in Threads, u \in Users : SigningIn(s, u)' =>
           req'[s].era = password[u] \/ (SigningIn(s, u) /\ req'[s].era = req[s].era),
         \A s \in Threads, u \in Users : Resetting(s, u) => Resetting(s, u)' \/ u \in raced'
  PROVE  SessionsInv'
<1> SUFFICES ASSUME NEW u \in Users \ raced', \A t \in Threads : ~Resetting(t, u)'
             PROVE  /\ \A t \in Threads : SigningIn(t, u)' => req'[t].era = password'[u]
                    /\ \A i \in TokenIds :
                         ActiveToken(i, "refresh")' /\ tokens'[i].user = u =>
                           tokens'[i].era = password'[u]
  BY DEF SessionsInv
<1>1. u \in Users \ raced /\ \A t \in Threads : ~Resetting(t, u)
  OBVIOUS
<1>2. /\ \A t \in Threads : SigningIn(t, u) => req[t].era = password[u]
      /\ \A i \in TokenIds :
           ActiveToken(i, "refresh") /\ tokens[i].user = u => tokens[i].era = password[u]
  BY <1>1 DEF SessionsInv
<1>3. \A i \in TokenIds : ActiveToken(i, "refresh")' =>
        /\ ActiveToken(i, "refresh")
        /\ tokens'[i].user = tokens[i].user
        /\ tokens'[i].era = tokens[i].era
  BY DEF ActiveToken, Aged, IsActive
<1>4. QED
  BY <1>2, <1>3

-----------------------------------------------------------------------------
(* The invariant holds initially and every step keeps it.                    *)

LEMMA InitIInv == Init => IInv
<1> SUFFICES ASSUME Init PROVE IInv
  OBVIOUS
<1>1. /\ \A i \in TokenIds : ~Issued(i) /\ ~IsActive(i)
      /\ \A t \in Threads : req[t].at = "idle"
  BY DEF Init, Issued, IsActive, NoToken, Idle
<1>2. TypeOK
  BY DEF Init, TypeOK
<1>3. RowsFit
  BY <1>1 DEF Init, RowsFit
<1>4. RequestsFit
  BY <1>1 DEF RequestsFit, RequestFits, Busy
<1>5. OneTimeInv
  BY <1>1 DEF OneTimeInv
<1>6. RotationInv
  BY <1>1 DEF RotationInv, Rotates, OneTokenPerSignIn, ActiveToken
<1>7. SessionsInv
  BY <1>1 DEF SessionsInv, SigningIn, ActiveToken
<1>8. QED
  BY <1>2, <1>3, <1>4, <1>5, <1>6, <1>7 DEF IInv

(* A request that will only create a row of its own: sign-in with the        *)
(* password in force, and the requests for one-time tokens.                  *)
LEMMA BeginNewStep ==
  ASSUME IInv, NEW t \in Threads, NEW u \in Users, NEW kind \in Kinds, NEW era \in Nat,
         Begin(t, "mint", u, "new", kind, era),
         kind = "refresh" => era = password[u],
         users' \subseteq Users, UNCHANGED <<password, verified, tokens, shared, raced>>
  PROVE  IInv'
<1>1. /\ ~Busy(t)
      /\ req' \in [Threads -> Request \cup {Idle}]
      /\ req'[t].at = "mint"
      /\ req'[t].user = u
      /\ req'[t].tok = "new"
      /\ req'[t].kind = kind
      /\ req'[t].era = era
      /\ \A s \in Threads \ {t} : req'[s] = req[s]
  BY BeginEffect DEF IInv, Steps, Given
<1>2. TypeOK /\ Aged
  BY AgedSame DEF IInv
<1>3. TypeOK'
  BY <1>1 DEF IInv, TypeOK
<1>4. RowsFit'
  BY <1>2, RowsKept DEF IInv, TypeOK
<1>5. RequestsFit'
  <2>1. RequestFits(t)'
    BY <1>1 DEF RequestFits
  <2>2. QED
    BY <1>1, <1>2, <2>1, RequestsKept DEF IInv
<1>6. OneTimeInv'
  <2>1. \A s \in Threads, i \in TokenIds : Holds(s, i)' = Holds(s, i)
    BY <1>1 DEF Holds, Busy
  <2>2. \A s \in Threads, i \in TokenIds : Holds(s, i) => req'[s] = req[s]
    BY <1>1 DEF Holds, Busy
  <2>3. QED
    BY <1>2, <2>1, <2>2, OneTimeKept DEF IInv
<1>7. RotationInv'
  BY <1>1, <1>2, RotationKept DEF IInv
<1>8. SessionsInv'
  <2>1. \A s \in Threads, v \in Users : SigningIn(s, v)' =>
          req'[s].era = password[v] \/ (SigningIn(s, v) /\ req'[s].era = req[s].era)
    BY <1>1 DEF SigningIn
  <2>2. \A s \in Threads, v \in Users : Resetting(s, v) => Resetting(s, v)'
    BY <1>1 DEF Resetting, Busy
  <2>3. QED
    BY <1>2, <2>1, <2>2, SessionsKept DEF IInv
<1>9. QED
  BY <1>3, <1>4, <1>5, <1>6, <1>7, <1>8 DEF IInv

(* A request that looks up an active refresh token to rotate it.             *)
LEMMA RefreshStep ==
  ASSUME IInv, NEW t \in Threads, NEW i \in TokenIds, Refresh(t, i)
  PROVE  IInv'
<1>1. /\ TypeOK
      /\ ActiveToken(i, "refresh")
      /\ Issued(i)
      /\ tokens[i].kind = "refresh"
      /\ tokens[i].user \in Users
      /\ tokens[i].era \in Nat
      /\ tokens[i].family \in TokenIds
  BY TokenRecord DEF IInv, Refresh, ActiveToken, IsActive, Token
<1>2. /\ ~Busy(t)
      /\ req' \in [Threads -> Request \cup {Idle}]
      /\ req'[t].at = "revoke"
      /\ req'[t].user = tokens[i].user
      /\ req'[t].tok = i
      /\ req'[t].kind = "refresh"
      /\ req'[t].era = tokens[i].era
      /\ \A s \in Threads \ {t} : req'[s] = req[s]
  BY <1>1, BeginEffect DEF Refresh, Steps, Given, Kinds
<1>3. Aged /\ UNCHANGED <<users, password, verified, tokens, raced>>
  BY <1>1, AgedSame DEF Refresh
<1>4. /\ shared' = shared \/ shared' = shared \cup {i}
      /\ (\E s \in Threads : Holds(s, i)) => i \in shared'
  BY DEF Refresh, SharedAfter
<1>5. TypeOK'
  BY <1>1, <1>2, <1>3, <1>4 DEF TypeOK
<1>6. RowsFit'
  BY <1>1, <1>3, <1>4, RowsKept DEF IInv, TypeOK
<1>7. RequestsFit'
  <2>1. RequestFits(t)'
    BY <1>1, <1>2, <1>3 DEF RequestFits, Issued
  <2>2. QED
    BY <1>1, <1>2, <1>3, <2>1, RequestsKept DEF IInv
<1>8. OneTimeInv'
  <2>1. \A s \in Threads, j \in TokenIds : tokens[j].kind \in OneTimeKinds =>
          (Holds(s, j)' = Holds(s, j)) /\ (Holds(s, j) => req'[s] = req[s])
    BY <1>1, <1>2 DEF Holds, Busy, OneTimeKinds
  <2>2. QED
    BY <1>1, <1>3, <1>4, <2>1, OneTimeKept DEF IInv
<1>9. RotationInv'
  <2>1. \A f \in TokenIds : Forked(f) => Forked(f)'
    BY <1>3, <1>4 DEF Forked
  <2>2. \A s \in Threads, f \in TokenIds :
          Rotates(s, f)' => (s = t /\ f = tokens[i].family) \/ (s # t /\ Rotates(s, f))
    BY <1>2, <1>3 DEF Rotates
  <2>3. ASSUME NEW s \in Threads, NEW f \in TokenIds, f = tokens[i].family,
               Rotates(s, f), s # t
        PROVE  Forked(f)'
    <3>1. Forked(f) \/ (req[s].at = "revoke" /\ req[s].tok = i)
      BY <1>1, <2>3 DEF IInv, RotationInv, Rotates, Forked
    <3>2. req[s].at = "revoke" /\ req[s].tok = i => i \in shared'
      BY <1>4 DEF Holds
    <3>3. i \in shared' => Forked(f)'
      BY <1>3, <2>3 DEF Forked
    <3>4. QED
      BY <1>1, <2>1, <3>1, <3>2, <3>3
  <2>4. \A s, r \in Threads, f \in TokenIds :
          Rotates(s, f)' /\ Rotates(r, f)' /\ s # r => Forked(f)'
    <3> SUFFICES ASSUME NEW s \in Threads, NEW r \in Threads, NEW f \in TokenIds,
                        Rotates(s, f)', Rotates(r, f)', s # r
                 PROVE  Forked(f)'
      OBVIOUS
    <3>1. CASE s # t /\ r # t
      BY <2>1, <2>2, <3>1 DEF IInv, RotationInv
    <3>2. CASE s = t
      BY <2>2, <2>3, <3>2
    <3>3. CASE r = t
      BY <2>2, <2>3, <3>3
    <3>4. QED
      BY <3>1, <3>2, <3>3
  <2>5. ASSUME NEW s \in Threads, NEW j \in TokenIds, NEW f \in TokenIds,
               f = tokens[j].family, ActiveToken(j, "refresh"), Rotates(s, f)'
        PROVE  Forked(f)' \/ (req'[s].at = "revoke" /\ req'[s].tok = j)
    <3>1. CASE s # t
      <4>1. Rotates(s, f)
        BY <2>2, <2>5, <3>1
      <4>2. Forked(f) \/ (req[s].at = "revoke" /\ req[s].tok = j)
        BY <2>5, <4>1 DEF IInv, RotationInv, Rotates, Forked
      <4>3. QED
        BY <1>2, <2>1, <3>1, <4>2
    <3>2. CASE s = t /\ i # j
      <4>1. tokens[i].family = tokens[j].family
        BY <2>2, <2>5, <3>2
      <4>2. Forked(f)
        BY <1>1, <2>5, <3>2, <4>1 DEF IInv, RotationInv, OneTokenPerSignIn, Forked
      <4>3. QED
        BY <2>1, <4>2
    <3>3. CASE s = t /\ i = j
      BY <1>2, <3>3
    <3>4. QED
      BY <3>1, <3>2, <3>3
  <2>6. OneTokenPerSignIn'
    BY <1>3, <1>4 DEF IInv, RotationInv, OneTokenPerSignIn, ActiveToken, IsActive, Issued
  <2>7. \A s \in Threads, j \in TokenIds :
          ActiveToken(j, "refresh")' /\ Rotates(s, tokens[j].family)' =>
            Forked(tokens[j].family)' \/ (req'[s].at = "revoke" /\ req'[s].tok = j)
    <3> SUFFICES ASSUME NEW s \in Threads, NEW j \in TokenIds,
                        ActiveToken(j, "refresh")', Rotates(s, tokens[j].family)'
                 PROVE  Forked(tokens[j].family)' \/ (req'[s].at = "revoke" /\ req'[s].tok = j)
      OBVIOUS
    <3>1. ActiveToken(j, "refresh") /\ tokens'[j].family = tokens[j].family
      BY <1>3 DEF ActiveToken, IsActive, Issued
    <3>2. tokens[j].family \in TokenIds
      BY <1>1, <3>1, TokenRecord DEF ActiveToken, IsActive, Token
    <3>3. QED
      BY <2>5, <3>1, <3>2 DEF Rotates, Forked
  <2>8. QED
    BY <2>4, <2>6, <2>7 DEF RotationInv
<1>10. SessionsInv'
  <2> SUFFICES ASSUME NEW u \in Users \ raced, \A s \in Threads : ~Resetting(s, u)'
               PROVE  /\ \A s \in Threads : SigningIn(s, u)' => req'[s].era = password[u]
                      /\ \A j \in TokenIds :
                           ActiveToken(j, "refresh") /\ tokens[j].user = u =>
                             tokens[j].era = password[u]
    BY <1>3 DEF SessionsInv, ActiveToken, IsActive, Issued
  <2>1. \A s \in Threads : ~Resetting(s, u)
    BY <1>2 DEF Resetting, Busy
  <2>2. /\ \A s \in Threads : SigningIn(s, u) => req[s].era = password[u]
        /\ \A j \in TokenIds :
             ActiveToken(j, "refresh") /\ tokens[j].user = u => tokens[j].era = password[u]
    BY <2>1 DEF IInv, SessionsInv
  <2>3. QED
    BY <1>1, <1>2, <2>2 DEF SigningIn
<1>11. QED
  BY <1>5, <1>6, <1>7, <1>8, <1>9, <1>10 DEF IInv

(* A request that looks up an active one-time token to use it.               *)
LEMMA ConfirmStep ==
  ASSUME IInv, NEW t \in Threads, NEW i \in TokenIds, NEW kind \in OneTimeKinds,
         NEW at \in {"write", "verify"},
         at = "write" => kind = "password_reset",
         at = "verify" => kind = "email_verification",
         ActiveToken(i, kind), Begin(t, at, tokens[i].user, i, kind, 0),
         shared' = SharedAfter(i), UNCHANGED <<users, password, verified, tokens, raced>>
  PROVE  IInv'
<1>1. /\ TypeOK
      /\ Issued(i)
      /\ tokens[i].kind = kind
      /\ tokens[i].user \in Users
      /\ tokens[i].uses \in 0 .. 2
      /\ ~tokens[i].consumed
  BY TokenRecord DEF IInv, ActiveToken, IsActive, Token
<1>2. /\ ~Busy(t)
      /\ req' \in [Threads -> Request \cup {Idle}]
      /\ req'[t].at = at
      /\ req'[t].user = tokens[i].user
      /\ req'[t].tok = i
      /\ req'[t].kind = kind
      /\ \A s \in Threads \ {t} : req'[s] = req[s]
  BY <1>1, BeginEffect DEF Steps, Given, Kinds
<1>3. Aged
  BY <1>1, AgedSame
<1>4. /\ shared' = shared \/ shared' = shared \cup {i}
      /\ (\E s \in Threads : Holds(s, i)) => i \in shared'
  BY DEF SharedAfter
<1>5. TypeOK'
  BY <1>1, <1>2, <1>4 DEF TypeOK
<1>6. RowsFit'
  BY <1>1, <1>3, <1>4, RowsKept DEF IInv, TypeOK
<1>7. RequestsFit'
  <2>1. RequestFits(t)'
    BY <1>1, <1>2 DEF RequestFits, Issued
  <2>2. QED
    BY <1>1, <1>2, <1>3, <2>1, RequestsKept DEF IInv
<1>8. OneTimeInv'
  <2> SUFFICES ASSUME NEW j \in TokenIds \ shared', Issued(j), tokens[j].kind \in OneTimeKinds
               PROVE  /\ \A s, r \in Threads : Holds(s, j)' /\ Holds(r, j)' => s = r
                      /\ \A s \in Threads :
                           Holds(s, j)' /\ req'[s].at \in {"write", "verify"} =>
                             tokens[j].uses = 0
                      /\ tokens[j].uses <= 1
                      /\ tokens[j].uses = 1 =>
                           \/ tokens[j].consumed
                           \/ \E s \in Threads : Holds(s, j)' /\ req'[s].at = "consume"
    BY DEF OneTimeInv, Issued
  <2>1. j \in TokenIds \ shared
    BY <1>4
  <2>2. /\ \A s, r \in Threads : Holds(s, j) /\ Holds(r, j) => s = r
        /\ \A s \in Threads :
             Holds(s, j) /\ req[s].at \in {"write", "verify"} => tokens[j].uses = 0
        /\ tokens[j].uses <= 1
        /\ tokens[j].uses = 1 =>
             \/ tokens[j].consumed
             \/ \E s \in Threads : Holds(s, j) /\ req[s].at = "consume"
    BY <2>1 DEF IInv, OneTimeInv
  <2>3. CASE j # i
    <3>1. \A s \in Threads :
            (Holds(s, j)' = Holds(s, j)) /\ (Holds(s, j) => req'[s] = req[s])
      BY <1>2, <2>3 DEF Holds, Busy
    <3>2. QED
      BY <2>2, <3>1
  <2>4. CASE j = i
    <3>1. \A s \in Threads : ~Holds(s, i)
      BY <1>4, <2>4
    <3>2. \A s \in Threads : Holds(s, i)' => s = t
      BY <1>2, <3>1 DEF Holds
    <3>3. tokens[i].uses = 0
      BY <1>1, <2>2, <2>4, <3>1
    <3>4. QED
      BY <2>4, <3>2, <3>3
  <2>5. QED
    BY <2>3, <2>4
<1>9. RotationInv'
  BY <1>1, <1>2, <1>3, <1>4, RotationKept DEF IInv
<1>10. SessionsInv'
  <2>1. \A s \in Threads, u \in Users :
          SigningIn(s, u)' => SigningIn(s, u) /\ req'[s].era = req[s].era
    BY <1>2 DEF SigningIn
  <2>2. \A s \in Threads, u \in Users : Resetting(s, u) => Resetting(s, u)'
    BY <1>2 DEF Resetting, Busy
  <2>3. QED
    BY <1>1, <1>3, <2>1, <2>2, SessionsKept DEF IInv
<1>11. QED
  BY <1>5, <1>6, <1>7, <1>8, <1>9, <1>10 DEF IInv

LEMMA LogoutStep ==
  ASSUME IInv, NEW t \in Threads, NEW i \in TokenIds, Logout(t, i)
  PROVE  IInv'
<1>1. /\ TypeOK
      /\ Issued(i)
      /\ tokens[i].kind = "refresh"
      /\ tokens[i].user \in Users
  BY TokenRecord DEF IInv, Logout, Token
<1>2. /\ ~Busy(t)
      /\ req' \in [Threads -> Request \cup {Idle}]
      /\ req'[t].at = "logout"
      /\ req'[t].user = tokens[i].user
      /\ req'[t].tok = i
      /\ req'[t].kind = "refresh"
      /\ \A s \in Threads \ {t} : req'[s] = req[s]
  <2>1. Begin(t, "logout", tokens[i].user, i, "refresh", 0)
    BY DEF Logout
  <2>2. "logout" \in Steps /\ i \in Given /\ "refresh" \in Kinds /\ 0 \in Nat
    BY DEF Steps, Given, Kinds
  <2>3. QED
    BY <1>1, <2>1, <2>2, BeginEffect
<1>3. Aged /\ UNCHANGED <<users, password, verified, tokens, shared, raced>>
  BY <1>1, AgedSame DEF Logout
<1>4. TypeOK'
  BY <1>1, <1>2, <1>3 DEF TypeOK
<1>5. RowsFit'
  BY <1>1, <1>3, RowsKept DEF IInv, TypeOK
<1>6. RequestsFit'
  <2>1. RequestFits(t)'
    BY <1>1, <1>2, <1>3 DEF RequestFits, Issued
  <2>2. QED
    BY <1>1, <1>2, <1>3, <2>1, RequestsKept DEF IInv
<1>7. OneTimeInv'
  <2>1. \A s \in Threads, j \in TokenIds : tokens[j].kind \in OneTimeKinds =>
          (Holds(s, j)' = Holds(s, j)) /\ (Holds(s, j) => req'[s] = req[s])
    BY <1>1, <1>2 DEF Holds, Busy, OneTimeKinds
  <2>2. QED
    BY <1>1, <1>3, <2>1, OneTimeKept DEF IInv
<1>8. RotationInv'
  BY <1>1, <1>2, <1>3, RotationKept DEF IInv
<1>9. SessionsInv'
  <2>1. \A s \in Threads, u \in Users :
          SigningIn(s, u)' => SigningIn(s, u) /\ req'[s].era = req[s].era
    BY <1>2 DEF SigningIn
  <2>2. \A s \in Threads, u \in Users : Resetting(s, u) => Resetting(s, u)'
    BY <1>2 DEF Resetting, Busy
  <2>3. QED
    BY <1>1, <1>3, <2>1, <2>2, SessionsKept DEF IInv
<1>10. QED
  BY <1>4, <1>5, <1>6, <1>7, <1>8, <1>9 DEF IInv

(* The row a busy request was given.                                         *)
LEMMA GivenRow ==
  ASSUME IInv, NEW t \in Threads, req[t].at \in Steps \ {"mint"}
  PROVE  /\ TypeOK
         /\ Busy(t)
         /\ req[t] \in Request
         /\ req[t].tok \in TokenIds
         /\ Issued(req[t].tok)
         /\ tokens[req[t].tok] \in Token
         /\ tokens[req[t].tok].kind = req[t].kind
         /\ tokens[req[t].tok].user = req[t].user
<1>1. Busy(t) /\ TypeOK /\ RequestFits(t)
  BY DEF Steps, Busy, IInv, RequestsFit
<1>2. req[t].tok \in TokenIds
  BY <1>1 DEF RequestFits, Steps
<1>3. Issued(req[t].tok) /\ tokens[req[t].tok].kind = req[t].kind
      /\ tokens[req[t].tok].user = req[t].user
  BY <1>1, <1>2, TokenIdsAssumption DEF RequestFits
<1>4. QED
  BY <1>1, <1>2, <1>3, RequestRecord, TokenRecord

LEMMA RevokePresentedStep ==
  ASSUME IInv, NEW t \in Threads, RevokePresented(t)
  PROVE  IInv'
<1>1. req[t].at = "revoke" /\ UNCHANGED <<users, password, verified, shared, raced>>
  BY DEF RevokePresented
<1>2. PICK i \in TokenIds :
      /\ TypeOK /\ Busy(t) /\ i = req[t].tok /\ Issued(i)
      /\ tokens[i].kind = req[t].kind
      /\ tokens[i].user = req[t].user
      /\ req[t].kind = "refresh"
  BY <1>1, GivenRow DEF Steps, IInv, RequestsFit, RequestFits
<1>3. /\ req' \in [Threads -> Request \cup {Idle}]
      /\ req'[t].at = "mint"
      /\ req'[t].user = req[t].user
      /\ req'[t].tok = i
      /\ req'[t].kind = req[t].kind
      /\ req'[t].era = req[t].era
      /\ \A s \in Threads \ {t} : req'[s] = req[s]
  <2>1. Continue(t, "mint") /\ "mint" \in Steps
    BY DEF RevokePresented, Steps
  <2>2. QED
    BY <1>2, <2>1, ContinueEffect
<1>4. /\ Aged
      /\ ~IsActive(i)'
      /\ \A j \in TokenIds : Issued(j) =>
           tokens'[j].uses = tokens[j].uses /\ tokens'[j].consumed = tokens[j].consumed
  BY <1>2, RevokeEffect DEF RevokePresented
<1>5. TypeOK'
  BY <1>1, <1>2, <1>3, <1>4 DEF TypeOK, Aged
<1>6. RowsFit'
  BY <1>1, <1>2, <1>4, RowsKept DEF IInv, TypeOK
<1>7. RequestsFit'
  <2>1. RequestFits(t)'
    BY <1>2, <1>3, <1>4 DEF RequestFits, Issued, Aged
  <2>2. QED
    BY <1>2, <1>3, <1>4, <2>1, RequestsKept DEF IInv
<1>8. OneTimeInv'
  <2>1. \A s \in Threads, j \in TokenIds : tokens[j].kind \in OneTimeKinds =>
          (Holds(s, j)' = Holds(s, j)) /\ (Holds(s, j) => req'[s] = req[s])
    BY <1>1, <1>2, <1>3 DEF Holds, OneTimeKinds
  <2>2. QED
    BY <1>1, <1>2, <1>4, <2>1, OneTimeKept DEF IInv
<1>9. RotationInv'
  <2>1. \A s \in Threads : req'[s].at \in {"revoke", "mint"} /\ req'[s].tok # "new" =>
          /\ req[s].at \in {"revoke", "mint"}
          /\ req'[s].tok = req[s].tok
          /\ req'[s].at = req[s].at \/ ~IsActive(req[s].tok)'
    BY <1>1, <1>2, <1>3, <1>4 DEF IsActive, Issued
  <2>2. QED
    BY <1>1, <1>2, <1>4, <2>1, RotationKept DEF IInv
<1>10. SessionsInv'
  <2>1. \A s \in Threads, u \in Users :
          SigningIn(s, u)' => SigningIn(s, u) /\ req'[s].era = req[s].era
    BY <1>1, <1>3 DEF SigningIn
  <2>2. \A s \in Threads, u \in Users : Resetting(s, u) => Resetting(s, u)'
    BY <1>1, <1>3 DEF Resetting
  <2>3. QED
    BY <1>1, <1>2, <1>4, <2>1, <2>2, SessionsKept DEF IInv
<1>11. QED
  BY <1>5, <1>6, <1>7, <1>8, <1>9, <1>10 DEF IInv

LEMMA RevokeLoggedOutStep ==
  ASSUME IInv, NEW t \in Threads, RevokeLoggedOut(t)
  PROVE  IInv'
<1>1. req[t].at = "logout" /\ UNCHANGED <<users, password, verified, shared, raced>>
  BY DEF RevokeLoggedOut
<1>2. PICK i \in TokenIds : TypeOK /\ Busy(t) /\ i = req[t].tok /\ Issued(i)
  BY <1>1, GivenRow DEF Steps
<1>3. /\ req' \in [Threads -> Request \cup {Idle}]
      /\ req'[t].at = "idle"
      /\ \A s \in Threads \ {t} : req'[s] = req[s]
  BY <1>2, AnswerEffect DEF RevokeLoggedOut
<1>4. /\ Aged
      /\ \A j \in TokenIds : Issued(j) =>
           tokens'[j].uses = tokens[j].uses /\ tokens'[j].consumed = tokens[j].consumed
  BY <1>2, RevokeEffect DEF RevokeLoggedOut
<1>5. TypeOK'
  BY <1>1, <1>2, <1>3, <1>4 DEF TypeOK, Aged
<1>6. RowsFit'
  BY <1>1, <1>2, <1>4, RowsKept DEF IInv, TypeOK
<1>7. RequestsFit'
  <2>1. RequestFits(t)'
    BY <1>3 DEF RequestFits, Busy
  <2>2. QED
    BY <1>2, <1>3, <1>4, <2>1, RequestsKept DEF IInv
<1>8. OneTimeInv'
  <2>1. \A s \in Threads, j \in TokenIds :
          /\ Holds(s, j)' => Holds(s, j) /\ req'[s] = req[s]
          /\ Holds(s, j) /\ req[s].at = "consume" =>
               Holds(s, j)' /\ req'[s].at = "consume"
    BY <1>1, <1>3 DEF Holds
  <2>2. QED
    BY <1>1, <1>2, <1>4, <2>1, OneTimeKept DEF IInv
<1>9. RotationInv'
  BY <1>1, <1>2, <1>3, <1>4, RotationKept DEF IInv
<1>10. SessionsInv'
  <2>1. \A s \in Threads, u \in Users :
          SigningIn(s, u)' => SigningIn(s, u) /\ req'[s].era = req[s].era
    BY <1>3 DEF SigningIn
  <2>2. \A s \in Threads, u \in Users : Resetting(s, u) => Resetting(s, u)'
    BY <1>1, <1>3 DEF Resetting
  <2>3. QED
    BY <1>1, <1>2, <1>4, <2>1, <2>2, SessionsKept DEF IInv
<1>11. QED
  BY <1>5, <1>6, <1>7, <1>8, <1>9, <1>10 DEF IInv

LEMMA ConsumeStep ==
  ASSUME IInv, NEW t \in Threads, Consume(t)
  PROVE  IInv'
<1>1. req[t].at = "consume" /\ UNCHANGED <<users, password, verified, shared, raced>>
  BY DEF Consume
<1>2. PICK i \in TokenIds :
      /\ TypeOK /\ Busy(t) /\ i = req[t].tok /\ Issued(i)
      /\ tokens[i].kind = req[t].kind
      /\ tokens[i].user = req[t].user
  BY <1>1, GivenRow DEF Steps
<1>3. /\ req' \in [Threads -> Request \cup {Idle}]
      /\ \A s \in Threads \ {t} : req'[s] = req[s]
      /\ \/ /\ req[t].kind = "password_reset"
            /\ req'[t].at = "sweep"
            /\ req'[t].user = req[t].user
            /\ req'[t].tok = i
            /\ req'[t].kind = req[t].kind
         \/ /\ req[t].kind # "password_reset"
            /\ req'[t].at = "idle"
  <2>1. CASE req[t].kind = "password_reset"
    <3>1. Continue(t, "sweep") /\ "sweep" \in Steps
      BY <2>1 DEF Consume, AfterConsume, Steps
    <3>2. QED
      BY <1>2, <2>1, <3>1, ContinueEffect
  <2>2. CASE req[t].kind # "password_reset"
    <3>1. Answer(t)
      BY <2>2 DEF Consume, AfterConsume
    <3>2. QED
      BY <1>2, <2>2, <3>1, AnswerEffect
  <2>3. QED
    BY <2>1, <2>2
<1>4. /\ Aged
      /\ tokens'[i].consumed
      /\ \A j \in TokenIds : Issued(j) =>
           tokens'[j].uses = tokens[j].uses /\ (tokens[j].consumed => tokens'[j].consumed)
  BY <1>2, ConsumeEffect DEF Consume
<1>5. TypeOK'
  BY <1>1, <1>2, <1>3, <1>4 DEF TypeOK, Aged
<1>6. RowsFit'
  BY <1>1, <1>2, <1>4, RowsKept DEF IInv, TypeOK
<1>7. RequestsFit'
  <2>1. RequestFits(t)'
    BY <1>2, <1>3, <1>4 DEF RequestFits, Issued, Aged, Busy
  <2>2. QED
    BY <1>2, <1>3, <1>4, <2>1, RequestsKept DEF IInv
<1>8. OneTimeInv'
  <2>1. \A s \in Threads, j \in TokenIds :
          /\ Holds(s, j)' => Holds(s, j) /\ (req'[s] = req[s] \/ req'[s].at = "sweep")
          /\ Holds(s, j) /\ req[s].at = "consume" =>
               tokens'[j].consumed \/ (Holds(s, j)' /\ req'[s].at = "consume")
    BY <1>1, <1>2, <1>3, <1>4 DEF Holds
  <2>2. QED
    BY <1>1, <1>2, <1>4, <2>1, OneTimeKept DEF IInv
<1>9. RotationInv'
  BY <1>1, <1>2, <1>3, <1>4, RotationKept DEF IInv
<1>10. SessionsInv'
  <2>1. \A s \in Threads, u \in Users :
          SigningIn(s, u)' => SigningIn(s, u) /\ req'[s].era = req[s].era
    BY <1>3 DEF SigningIn
  <2>2. \A s \in Threads, u \in Users : Resetting(s, u) => Resetting(s, u)'
    BY <1>1, <1>3 DEF Resetting
  <2>3. QED
    BY <1>1, <1>2, <1>4, <2>1, <2>2, SessionsKept DEF IInv
<1>11. QED
  BY <1>5, <1>6, <1>7, <1>8, <1>9, <1>10 DEF IInv

LEMMA ExpireStep ==
  ASSUME IInv, NEW i \in TokenIds, Expire(i)
  PROVE  IInv'
<1>1. TypeOK /\ Issued(i) /\ UNCHANGED <<users, password, verified, req, shared, raced>>
  BY DEF Expire, IsActive, IInv
<1>2. /\ Aged
      /\ \A j \in TokenIds : Issued(j) =>
           tokens'[j].uses = tokens[j].uses /\ tokens'[j].consumed = tokens[j].consumed
  BY <1>1, ExpireEffect DEF Expire
<1>3. TypeOK'
  BY <1>1, <1>2 DEF TypeOK, Aged
<1>4. RowsFit'
  BY <1>1, <1>2, RowsKept DEF IInv, TypeOK
<1>5. RequestsFit'
  <2>1. \A t \in Threads : Busy(t) /\ req[t].tok # "new" => req[t].tok \in TokenIds
    BY <1>1, RequestRecord DEF Request, Given
  <2>2. QED
    BY <1>1, <1>2, <2>1 DEF IInv, RequestsFit, RequestFits, Aged, Issued, Busy
<1>6. OneTimeInv'
  <2>1. \A s \in Threads, j \in TokenIds : Holds(s, j)' = Holds(s, j)
    BY <1>1 DEF Holds
  <2>2. QED
    BY <1>1, <1>2, <2>1, OneTimeKept DEF IInv
<1>7. RotationInv'
  BY <1>1, <1>2, RotationKept DEF IInv
<1>8. SessionsInv'
  <2>1. \A s \in Threads, u \in Users :
          (SigningIn(s, u)' = SigningIn(s, u)) /\ (Resetting(s, u)' = Resetting(s, u))
    BY <1>1 DEF SigningIn, Resetting
  <2>2. QED
    BY <1>1, <1>2, <2>1, SessionsKept DEF IInv
<1>9. QED
  BY <1>3, <1>4, <1>5, <1>6, <1>7, <1>8 DEF IInv

(* A one-time token has its effect.                                          *)
LEMMA UseKeepsOneTime ==
  ASSUME IInv, NEW t \in Threads, NEW i \in TokenIds, i = req[t].tok,
         req[t].at \in {"write", "verify"}, Issued(i),
         tokens' = [tokens EXCEPT ![i].uses = OnceMore(@)],
         req'[t].at = "consume", req'[t].tok = i,
         \A s \in Threads \ {t} : req'[s] = req[s],
         UNCHANGED shared
  PROVE  OneTimeInv'
<1>1. /\ Aged
      /\ tokens[i].uses = 0 => tokens'[i].uses = 1
      /\ \A j \in TokenIds \ {i} : tokens'[j] = tokens[j]
  BY UseEffect DEF IInv
<1> SUFFICES ASSUME NEW j \in TokenIds \ shared, Issued(j), tokens[j].kind \in OneTimeKinds
             PROVE  /\ \A s, r \in Threads : Holds(s, j)' /\ Holds(r, j)' => s = r
                    /\ \A s \in Threads :
                         Holds(s, j)' /\ req'[s].at \in {"write", "verify"} =>
                           tokens'[j].uses = 0
                    /\ tokens'[j].uses <= 1
                    /\ tokens'[j].uses = 1 =>
                         \/ tokens'[j].consumed
                         \/ \E s \in Threads : Holds(s, j)' /\ req'[s].at = "consume"
  BY <1>1 DEF OneTimeInv, Issued, Aged
<1>2. /\ \A s, r \in Threads : Holds(s, j) /\ Holds(r, j) => s = r
      /\ \A s \in Threads :
           Holds(s, j) /\ req[s].at \in {"write", "verify"} => tokens[j].uses = 0
      /\ tokens[j].uses <= 1
      /\ tokens[j].uses = 1 =>
           \/ tokens[j].consumed
           \/ \E s \in Threads : Holds(s, j) /\ req[s].at = "consume"
  BY DEF IInv, OneTimeInv
<1>3. \A s \in Threads : Holds(s, j)' = Holds(s, j)
  BY DEF Holds
<1>4. CASE j # i
  <2>1. \A s \in Threads : Holds(s, j) => req'[s] = req[s]
    BY <1>4 DEF Holds
  <2>2. QED
    BY <1>1, <1>2, <1>3, <1>4, <2>1
<1>5. CASE j = i
  <2>1. Holds(t, i) /\ Holds(t, i)'
    BY DEF Holds
  <2>2. tokens'[i].uses = 1
    BY <1>1, <1>2, <1>5, <2>1
  <2>3. QED
    BY <1>2, <1>3, <1>5, <2>1, <2>2
<1>6. QED
  BY <1>4, <1>5

LEMMA UpdateUserPasswordStep ==
  ASSUME IInv, NEW t \in Threads, UpdateUserPassword(t)
  PROVE  IInv'
<1>1. req[t].at = "write" /\ UNCHANGED <<users, verified, shared, raced>>
  BY DEF UpdateUserPassword
<1>2. PICK i \in TokenIds :
      /\ TypeOK /\ Busy(t) /\ i = req[t].tok /\ Issued(i)
      /\ tokens[i].kind = req[t].kind
      /\ tokens[i].user = req[t].user
      /\ req[t].user \in Users
      /\ req[t].kind = "password_reset"
  BY <1>1, GivenRow DEF Steps, IInv, RequestsFit, RequestFits, Request
<1>3. /\ req' \in [Threads -> Request \cup {Idle}]
      /\ req'[t].at = "consume"
      /\ req'[t].user = req[t].user
      /\ req'[t].tok = i
      /\ req'[t].kind = req[t].kind
      /\ \A s \in Threads \ {t} : req'[s] = req[s]
  <2>1. Continue(t, "consume") /\ "consume" \in Steps
    BY DEF UpdateUserPassword, Steps
  <2>2. QED
    BY <1>2, <2>1, ContinueEffect
<1>4. tokens' = [tokens EXCEPT ![i].uses = OnceMore(@)] /\ Aged
  BY <1>2, UseEffect DEF UpdateUserPassword
<1>5. /\ password' \in [Users -> Nat]
      /\ \A u \in Users \ {req[t].user} : password'[u] = password[u]
  BY <1>2 DEF UpdateUserPassword, TypeOK
<1>6. TypeOK'
  BY <1>1, <1>2, <1>3, <1>4, <1>5 DEF TypeOK, Aged
<1>7. RowsFit'
  BY <1>1, <1>2, <1>4, RowsKept DEF IInv, TypeOK
<1>8. RequestsFit'
  <2>1. RequestFits(t)'
    BY <1>2, <1>3, <1>4 DEF RequestFits, Issued, Aged, OneTimeKinds
  <2>2. QED
    BY <1>2, <1>3, <1>4, <2>1, RequestsKept DEF IInv
<1>9. OneTimeInv'
  BY <1>1, <1>2, <1>3, <1>4, UseKeepsOneTime
<1>10. RotationInv'
  BY <1>1, <1>2, <1>3, <1>4, RotationKept DEF IInv
<1>11. SessionsInv'
  <2> SUFFICES ASSUME NEW u \in Users \ raced, \A s \in Threads : ~Resetting(s, u)'
               PROVE  /\ \A s \in Threads : SigningIn(s, u)' => req'[s].era = password'[u]
                      /\ \A j \in TokenIds :
                           ActiveToken(j, "refresh")' /\ tokens'[j].user = u =>
                             tokens'[j].era = password'[u]
    BY <1>1 DEF SessionsInv
  <2>1. u # req[t].user
    BY <1>2, <1>3 DEF Resetting
  <2>2. \A s \in Threads : ~Resetting(s, u)
    BY <1>1, <1>3 DEF Resetting
  <2>3. /\ \A s \in Threads : SigningIn(s, u) => req[s].era = password[u]
        /\ \A j \in TokenIds :
             ActiveToken(j, "refresh") /\ tokens[j].user = u => tokens[j].era = password[u]
    BY <2>2 DEF IInv, SessionsInv
  <2>4. \A s \in Threads : SigningIn(s, u)' => SigningIn(s, u) /\ req'[s] = req[s]
    BY <1>3 DEF SigningIn
  <2>5. \A j \in TokenIds : ActiveToken(j, "refresh")' =>
          /\ ActiveToken(j, "refresh")
          /\ tokens'[j].user = tokens[j].user
          /\ tokens'[j].era = tokens[j].era
    BY <1>4 DEF ActiveToken, Aged, IsActive
  <2>6. QED
    BY <1>5, <2>1, <2>3, <2>4, <2>5
<1>12. QED
  BY <1>6, <1>7, <1>8, <1>9, <1>10, <1>11 DEF IInv

LEMMA MarkVerifiedStep ==
  ASSUME IInv, NEW t \in Threads, MarkVerified(t)
  PROVE  IInv'
<1>1. req[t].at = "verify" /\ UNCHANGED <<users, password, shared, raced>>
  BY DEF MarkVerified
<1>2. PICK i \in TokenIds :
      /\ TypeOK /\ Busy(t) /\ i = req[t].tok /\ Issued(i)
      /\ tokens[i].kind = req[t].kind
      /\ tokens[i].user = req[t].user
      /\ req[t].user \in Users
      /\ req[t].kind = "email_verification"
  BY <1>1, GivenRow DEF Steps, IInv, RequestsFit, RequestFits, Request
<1>3. /\ req' \in [Threads -> Request \cup {Idle}]
      /\ req'[t].at = "consume"
      /\ req'[t].user = req[t].user
      /\ req'[t].tok = i
      /\ req'[t].kind = req[t].kind
      /\ \A s \in Threads \ {t} : req'[s] = req[s]
  <2>1. Continue(t, "consume") /\ "consume" \in Steps
    BY DEF MarkVerified, Steps
  <2>2. QED
    BY <1>2, <2>1, ContinueEffect
<1>4. tokens' = [tokens EXCEPT ![i].uses = OnceMore(@)] /\ Aged
  BY <1>2, UseEffect DEF MarkVerified
<1>5. TypeOK'
  BY <1>1, <1>2, <1>3, <1>4 DEF TypeOK, Aged, MarkVerified
<1>6. RowsFit'
  BY <1>1, <1>2, <1>4, RowsKept DEF IInv, TypeOK
<1>7. RequestsFit'
  <2>1. RequestFits(t)'
    BY <1>2, <1>3, <1>4 DEF RequestFits, Issued, Aged, OneTimeKinds
  <2>2. QED
    BY <1>2, <1>3, <1>4, <2>1, RequestsKept DEF IInv
<1>8. OneTimeInv'
  BY <1>1, <1>2, <1>3, <1>4, UseKeepsOneTime
<1>9. RotationInv'
  BY <1>1, <1>2, <1>3, <1>4, RotationKept DEF IInv
<1>10. SessionsInv'
  <2>1. \A s \in Threads, u \in Users :
          SigningIn(s, u)' => SigningIn(s, u) /\ req'[s].era = req[s].era
    BY <1>3 DEF SigningIn
  <2>2. \A s \in Threads, u \in Users : Resetting(s, u) => Resetting(s, u)'
    BY <1>1, <1>3 DEF Resetting
  <2>3. QED
    BY <1>1, <1>2, <1>4, <2>1, <2>2, SessionsKept DEF IInv
<1>11. QED
  BY <1>5, <1>6, <1>7, <1>8, <1>9, <1>10 DEF IInv

LEMMA StopStep ==
  ASSUME IInv, NEW t \in Threads, Stop(t)
  PROVE  IInv'
<1>1. /\ TypeOK /\ Busy(t) /\ req[t] \in Request
      /\ UNCHANGED <<users, password, verified, tokens>>
  BY RequestRecord DEF Stop, IInv
<1>2. /\ req' \in [Threads -> Request \cup {Idle}]
      /\ req'[t].at = "idle"
      /\ \A s \in Threads \ {t} : req'[s] = req[s]
  BY <1>1, AnswerEffect DEF Stop
<1>3. Aged
  BY <1>1, AgedSame
<1>4. /\ shared \subseteq shared'
      /\ req[t].at = "consume" => req[t].tok \in shared'
      /\ shared' \subseteq TokenIds
      /\ \A i \in shared' : i \in shared \/ Issued(i)
  <2>1. CASE req[t].at = "consume"
    <3>1. shared' = shared \cup {req[t].tok}
      BY <2>1 DEF Stop
    <3>2. req[t].tok \in TokenIds /\ Issued(req[t].tok)
      BY <2>1, GivenRow DEF Steps
    <3>3. QED
      BY <1>1, <3>1, <3>2 DEF TypeOK
  <2>2. CASE req[t].at # "consume"
    BY <1>1, <2>2 DEF Stop, TypeOK
  <2>3. QED
    BY <2>1, <2>2
<1>5. /\ raced \subseteq raced'
      /\ raced' \subseteq Users
      /\ \A u \in Users : Resetting(t, u) => u \in raced'
  BY <1>1 DEF Stop, TypeOK, Request, Resetting
<1>6. TypeOK'
  BY <1>1, <1>2, <1>4, <1>5 DEF TypeOK
<1>7. RowsFit'
  BY <1>1, <1>3, <1>4, RowsKept DEF IInv
<1>8. RequestsFit'
  <2>1. RequestFits(t)'
    BY <1>2 DEF RequestFits, Busy
  <2>2. QED
    BY <1>1, <1>2, <1>3, <2>1, RequestsKept DEF IInv
<1>9. OneTimeInv'
  <2>1. \A s \in Threads, j \in TokenIds :
          /\ Holds(s, j)' => Holds(s, j) /\ req'[s] = req[s]
          /\ Holds(s, j) /\ req[s].at = "consume" =>
               j \in shared' \/ (Holds(s, j)' /\ req'[s].at = "consume")
    BY <1>2, <1>4 DEF Holds
  <2>2. QED
    BY <1>1, <1>3, <1>4, <2>1, OneTimeKept DEF IInv
<1>10. RotationInv'
  BY <1>1, <1>2, <1>3, <1>4, RotationKept DEF IInv
<1>11. SessionsInv'
  <2>1. \A s \in Threads, u \in Users :
          SigningIn(s, u)' => SigningIn(s, u) /\ req'[s].era = req[s].era
    BY <1>2 DEF SigningIn
  <2>2. \A s \in Threads, u \in Users : Resetting(s, u) => Resetting(s, u)' \/ u \in raced'
    BY <1>2, <1>5 DEF Resetting
  <2>3. QED
    BY <1>1, <1>3, <1>5, <2>1, <2>2, SessionsKept DEF IInv
<1>12. QED
  BY <1>6, <1>7, <1>8, <1>9, <1>10, <1>11 DEF IInv

LEMMA RevokeUserTokensStep ==
  ASSUME IInv, NEW t \in Threads, RevokeUserTokens(t)
  PROVE  IInv'
<1>1. req[t].at = "sweep" /\ UNCHANGED <<users, password, verified, shared>>
  BY DEF RevokeUserTokens
<1>2. PICK u \in Users : TypeOK /\ Busy(t) /\ u = req[t].user
  BY <1>1, GivenRow DEF Steps, Request
<1>3. /\ req' \in [Threads -> Request \cup {Idle}]
      /\ req'[t].at = "idle"
      /\ \A s \in Threads \ {t} : req'[s] = req[s]
  BY <1>2, AnswerEffect DEF RevokeUserTokens
<1>4. /\ Aged
      /\ \A i \in TokenIds : tokens'[i].user = u => ~ActiveToken(i, "refresh")'
      /\ \A j \in TokenIds : Issued(j) =>
           tokens'[j].uses = tokens[j].uses /\ tokens'[j].consumed = tokens[j].consumed
  BY <1>2, SweepEffect DEF RevokeUserTokens
<1>5. raced' = IF Overtaken(t, u) THEN raced \cup {u} ELSE raced \ {u}
  BY <1>2 DEF RevokeUserTokens
<1>6. TypeOK'
  BY <1>1, <1>2, <1>3, <1>4, <1>5 DEF TypeOK, Aged
<1>7. RowsFit'
  BY <1>1, <1>2, <1>4, RowsKept DEF IInv, TypeOK
<1>8. RequestsFit'
  <2>1. RequestFits(t)'
    BY <1>3 DEF RequestFits, Busy
  <2>2. QED
    BY <1>2, <1>3, <1>4, <2>1, RequestsKept DEF IInv
<1>9. OneTimeInv'
  <2>1. \A s \in Threads, j \in TokenIds :
          /\ Holds(s, j)' => Holds(s, j) /\ req'[s] = req[s]
          /\ Holds(s, j) /\ req[s].at = "consume" =>
               Holds(s, j)' /\ req'[s].at = "consume"
    BY <1>1, <1>3 DEF Holds
  <2>2. QED
    BY <1>1, <1>2, <1>4, <2>1, OneTimeKept DEF IInv
<1>10. RotationInv'
  BY <1>1, <1>2, <1>3, <1>4, RotationKept DEF IInv
<1>11. SessionsInv'
  <2> SUFFICES ASSUME NEW v \in Users \ raced', \A s \in Threads : ~Resetting(s, v)'
               PROVE  /\ \A s \in Threads : SigningIn(s, v)' => req'[s].era = password[v]
                      /\ \A j \in TokenIds :
                           ActiveToken(j, "refresh")' /\ tokens'[j].user = v =>
                             tokens'[j].era = password[v]
    BY <1>1 DEF SessionsInv
  <2>1. \A s \in Threads : SigningIn(s, v)' => s # t /\ SigningIn(s, v) /\ req'[s] = req[s]
    BY <1>3 DEF SigningIn
  <2>2. CASE v = u
    <3>1. ~Overtaken(t, u)
      BY <1>5, <2>2
    <3>2. QED
      BY <1>4, <2>1, <2>2, <3>1 DEF Overtaken
  <2>3. CASE v # u
    <3>1. v \notin raced /\ \A s \in Threads : ~Resetting(s, v)
      BY <1>2, <1>3, <1>5, <2>3 DEF Resetting
    <3>2. /\ \A s \in Threads : SigningIn(s, v) => req[s].era = password[v]
          /\ \A j \in TokenIds :
               ActiveToken(j, "refresh") /\ tokens[j].user = v => tokens[j].era = password[v]
      BY <3>1 DEF IInv, SessionsInv
    <3>3. \A j \in TokenIds : ActiveToken(j, "refresh")' =>
            /\ ActiveToken(j, "refresh")
            /\ tokens'[j].user = tokens[j].user
            /\ tokens'[j].era = tokens[j].era
      BY <1>4 DEF ActiveToken, Aged, IsActive
    <3>4. QED
      BY <2>1, <3>2, <3>3
  <2>4. QED
    BY <2>2, <2>3
<1>12. QED
  BY <1>6, <1>7, <1>8, <1>9, <1>10, <1>11 DEF IInv

(* The row that a sign-in, a rotation or a request for a token creates.      *)
LEMMA MintStep ==
  ASSUME IInv, NEW t \in Threads, Mint(t)
  PROVE  IInv'
<1> DEFINE old == tokens[req[t].tok]
           new(i) == [kind |-> req[t].kind, user |-> req[t].user, consumed |-> FALSE,
                      revoked |-> FALSE, expired |-> FALSE, era |-> req[t].era,
                      uses |-> 0,
                      family |-> IF req[t].tok = "new" THEN i ELSE old.family]
<1>1. /\ req[t].at = "mint"
      /\ UNCHANGED <<users, password, verified, shared, raced>>
      /\ TypeOK
  BY DEF Mint, IInv
<1>2. Busy(t) /\ req[t] \in Request
  BY <1>1, RequestRecord DEF Busy
<1>3. req[t].tok # "new" =>
        req[t].tok \in TokenIds /\ Issued(req[t].tok) /\ old.family \in TokenIds
        /\ Issued(old.family)
  BY <1>1, <1>2, TokenRecord DEF IInv, RequestsFit, RequestFits, RowsFit, Request, Given, Token
<1>4. PICK i \in TokenIds : ~Issued(i) /\ tokens' = [tokens EXCEPT ![i] = new(i)]
  BY DEF Mint
<1>5. new(i) \in Token
  BY <1>2, <1>3, <1>4 DEF Request, Token
<1>6. /\ tokens' \in [TokenIds -> Token \cup {NoToken}]
      /\ tokens'[i] = new(i)
      /\ \A j \in TokenIds \ {i} : tokens'[j] = tokens[j]
  BY <1>1, <1>4, <1>5 DEF TypeOK
<1>7. PICK f \in TokenIds : f = new(i).family
  BY <1>5 DEF Token
<1>8. /\ tokens'[i].kind = req[t].kind
      /\ tokens'[i].user = req[t].user
      /\ tokens'[i].era = req[t].era
      /\ tokens'[i].uses = 0
      /\ tokens'[i].family = f
      /\ f = IF req[t].tok = "new" THEN i ELSE old.family
      /\ Issued(i)'
  BY <1>5, <1>6, <1>7 DEF Issued, Token, Kinds, OneTimeKinds
<1> HIDE DEF new
<1>9. /\ req' \in [Threads -> Request \cup {Idle}]
      /\ req'[t].at = "idle"
      /\ \A s \in Threads \ {t} : req'[s] = req[s]
  BY <1>1, AnswerEffect DEF Mint
<1>10. \A j \in TokenIds : Issued(j) => j # i /\ tokens'[j] = tokens[j]
  BY <1>4, <1>6
<1>11. \A s \in Threads : Busy(s) /\ req[s].tok # "new" =>
         req[s].tok \in TokenIds /\ Issued(req[s].tok)
  BY <1>1, RequestRecord DEF IInv, RequestsFit, RequestFits, Request, Given
<1>12. TypeOK'
  BY <1>1, <1>6, <1>9 DEF TypeOK
<1>13. RowsFit'
  <2>1. Issued(tokens[i].family)'
    BY <1>3, <1>8, <1>10 DEF Issued
  <2>2. \A j \in TokenIds \ {i} : Issued(j)' =>
          Issued(j) /\ tokens'[j].family = tokens[j].family /\ tokens[j].family \in TokenIds
    BY <1>1, <1>6, TokenRecord DEF Issued, Token
  <2>3. \A j \in TokenIds : Issued(j) => Issued(j)'
    BY <1>10 DEF Issued
  <2>4. QED
    BY <1>1, <2>1, <2>2, <2>3 DEF IInv, RowsFit, TypeOK, Issued
<1>14. RequestsFit'
  <2> SUFFICES ASSUME NEW s \in Threads PROVE RequestFits(s)'
    BY DEF RequestsFit
  <2>1. CASE s = t
    BY <1>9, <2>1 DEF RequestFits, Busy
  <2>2. CASE s # t
    <3>1. RequestFits(s) /\ req'[s] = req[s]
      BY <1>9, <2>2 DEF IInv, RequestsFit
    <3>2. QED
      BY <1>10, <1>11, <3>1 DEF RequestFits, Busy, Issued
  <2>3. QED
    BY <2>1, <2>2
<1>15. OneTimeInv'
  <2>1. \A s \in Threads, j \in TokenIds :
          (Holds(s, j)' = Holds(s, j)) /\ (Holds(s, j) => req'[s] = req[s])
    BY <1>1, <1>9 DEF Holds
  <2>2. \A s \in Threads : ~Holds(s, i)
    BY <1>4, <1>11, TokenIdsAssumption DEF Holds, Busy
  <2>3. \A j \in TokenIds : Issued(j)' => j = i \/ (Issued(j) /\ tokens'[j] = tokens[j])
    BY <1>6 DEF Issued
  <2>4. QED
    BY <1>1, <1>8, <2>1, <2>2, <2>3 DEF IInv, OneTimeInv
<1>16. RotationInv'
  <2>1. \A s \in Threads, g \in TokenIds :
          Rotates(s, g)' => s # t /\ Rotates(s, g) /\ Issued(g) /\ req'[s] = req[s]
    <3> SUFFICES ASSUME NEW s \in Threads, NEW g \in TokenIds, Rotates(s, g)'
                 PROVE  s # t /\ Rotates(s, g) /\ Issued(g) /\ req'[s] = req[s]
      OBVIOUS
    <3>1. s # t /\ req'[s] = req[s] /\ Busy(s) /\ req[s].tok # "new"
      BY <1>9 DEF Rotates, Busy
    <3>2. req[s].tok \in TokenIds /\ Issued(req[s].tok)
      BY <1>11, <3>1
    <3>3. Rotates(s, g)
      BY <1>10, <3>1, <3>2 DEF Rotates
    <3>4. Issued(g)
      BY <3>2, <3>3 DEF Rotates, IInv, RowsFit
    <3>5. QED
      BY <3>1, <3>3, <3>4
  <2>2. \A g \in TokenIds : Forked(g) => Forked(g)'
    BY <1>1, <1>10 DEF Forked, IInv, RowsFit, TypeOK
  <2>3. \A j \in TokenIds : ActiveToken(j, "refresh")' /\ j # i =>
          /\ ActiveToken(j, "refresh")
          /\ tokens'[j].family = tokens[j].family
          /\ tokens[j].family \in TokenIds
          /\ Issued(tokens[j].family)
    BY <1>1, <1>6, TokenRecord DEF ActiveToken, IsActive, Issued, Token, IInv, RowsFit
  <2>4. Issued(f) => Rotates(t, f)
    BY <1>1, <1>4, <1>8 DEF Rotates
  <2>5. \A s, r \in Threads, g \in TokenIds :
          Rotates(s, g)' /\ Rotates(r, g)' /\ s # r => Forked(g)'
    BY <2>1, <2>2 DEF IInv, RotationInv
  <2>6. ASSUME NEW s \in Threads, NEW j \in TokenIds, NEW g \in TokenIds,
               ActiveToken(j, "refresh")', g = tokens'[j].family, Rotates(s, g)'
        PROVE  Forked(g)' \/ (req'[s].at = "revoke" /\ req'[s].tok = j)
    <3>1. CASE j = i
      <4>1. g = f /\ s # t /\ Rotates(s, f) /\ Issued(f)
        BY <1>8, <2>1, <2>6, <3>1
      <4>2. Forked(f)
        BY <2>4, <4>1 DEF IInv, RotationInv
      <4>3. QED
        BY <2>2, <4>1, <4>2
    <3>2. CASE j # i
      <4>1. ActiveToken(j, "refresh") /\ g = tokens[j].family
        BY <2>3, <2>6, <3>2
      <4>2. Rotates(s, g) /\ req'[s] = req[s]
        BY <2>1, <2>6
      <4>3. Forked(g) \/ (req[s].at = "revoke" /\ req[s].tok = j)
        BY <4>1, <4>2 DEF IInv, RotationInv, Rotates, Forked
      <4>4. QED
        BY <2>2, <4>2, <4>3
    <3>3. QED
      BY <3>1, <3>2
  <2>7. ASSUME NEW j \in TokenIds \ {i}, ActiveToken(i, "refresh")',
               ActiveToken(j, "refresh")', tokens'[i].family = tokens'[j].family
        PROVE  Forked(f)'
    <3>1. ActiveToken(j, "refresh") /\ tokens[j].family = f /\ Issued(f)
      BY <1>8, <2>3, <2>7
    <3>2. Rotates(t, f) /\ req[t].at # "revoke"
      BY <1>1, <2>4, <3>1
    <3>3. Forked(f)
      BY <3>1, <3>2 DEF IInv, RotationInv, Rotates, Forked
    <3>4. QED
      BY <2>2, <3>3
  <2>8. OneTokenPerSignIn'
    <3> SUFFICES ASSUME NEW j \in TokenIds, NEW k \in TokenIds, j # k,
                        ActiveToken(j, "refresh")', ActiveToken(k, "refresh")',
                        tokens'[j].family = tokens'[k].family
                 PROVE  \E l \in shared' : tokens'[l].family = tokens'[j].family
      BY DEF OneTokenPerSignIn
    <3>1. CASE j = i \/ k = i
      BY <1>8, <2>7, <3>1 DEF Forked
    <3>2. CASE j # i /\ k # i
      <4>1. PICK g \in TokenIds : g = tokens[j].family /\ g = tokens[k].family
        BY <2>3, <3>2
      <4>2. Forked(g)
        BY <2>3, <3>2, <4>1 DEF IInv, RotationInv, OneTokenPerSignIn, Forked
      <4>3. QED
        BY <2>2, <2>3, <3>2, <4>1, <4>2 DEF Forked
    <3>3. QED
      BY <3>1, <3>2
  <2>9. \A s \in Threads, j \in TokenIds :
          ActiveToken(j, "refresh")' /\ Rotates(s, tokens[j].family)' =>
            Forked(tokens[j].family)' \/ (req'[s].at = "revoke" /\ req'[s].tok = j)
    <3> SUFFICES ASSUME NEW s \in Threads, NEW j \in TokenIds,
                        ActiveToken(j, "refresh")', Rotates(s, tokens[j].family)'
                 PROVE  Forked(tokens[j].family)' \/ (req'[s].at = "revoke" /\ req'[s].tok = j)
      OBVIOUS
    <3>1. PICK g \in TokenIds : g = tokens'[j].family
      BY <1>8, <2>3
    <3>2. QED
      BY <2>6, <3>1 DEF Rotates, Forked
  <2>10. QED
    BY <2>5, <2>8, <2>9 DEF RotationInv
<1>17. SessionsInv'
  <2> SUFFICES ASSUME NEW u \in Users \ raced, \A s \in Threads : ~Resetting(s, u)'
               PROVE  /\ \A s \in Threads : SigningIn(s, u)' => req'[s].era = password[u]
                      /\ \A j \in TokenIds :
                           ActiveToken(j, "refresh")' /\ tokens'[j].user = u =>
                             tokens'[j].era = password[u]
    BY <1>1 DEF SessionsInv
  <2>1. \A s \in Threads : ~Resetting(s, u)
    BY <1>1, <1>9 DEF Resetting
  <2>2. /\ \A s \in Threads : SigningIn(s, u) => req[s].era = password[u]
        /\ \A j \in TokenIds :
             ActiveToken(j, "refresh") /\ tokens[j].user = u => tokens[j].era = password[u]
    BY <2>1 DEF IInv, SessionsInv
  <2>3. \A s \in Threads : SigningIn(s, u)' => SigningIn(s, u) /\ req'[s] = req[s]
    BY <1>9 DEF SigningIn
  <2>4. ActiveToken(i, "refresh")' /\ tokens'[i].user = u => SigningIn(t, u)
    BY <1>1, <1>8 DEF ActiveToken, SigningIn
  <2>5. \A j \in TokenIds \ {i} : ActiveToken(j, "refresh")' =>
          ActiveToken(j, "refresh") /\ tokens'[j] = tokens[j]
    BY <1>6 DEF ActiveToken, IsActive, Issued
  <2>6. QED
    BY <1>8, <2>2, <2>3, <2>4, <2>5
<1>18. QED
  BY <1>12, <1>13, <1>14, <1>15, <1>16, <1>17 DEF IInv

LEMMA StutterStep == IInv /\ UNCHANGED vars => IInv'
<1> SUFFICES ASSUME IInv, UNCHANGED vars PROVE IInv'
  OBVIOUS
<1>1. UNCHANGED <<users, password, verified, tokens, req, shared, raced>>
  BY DEF vars
<1>2. TypeOK' /\ RowsFit' /\ RequestsFit'
  BY <1>1 DEF IInv, TypeOK, RowsFit, RequestsFit, RequestFits, Issued, Busy
<1>3. OneTimeInv'
  BY <1>1 DEF IInv, OneTimeInv, Holds, Issued
<1>4. RotationInv'
  BY <1>1 DEF IInv, RotationInv, Rotates, Forked, OneTokenPerSignIn, ActiveToken, IsActive,
              Issued
<1>5. SessionsInv'
  BY <1>1 DEF IInv, SessionsInv, SigningIn, Resetting, ActiveToken, IsActive, Issued
<1>6. QED
  BY <1>2, <1>3, <1>4, <1>5 DEF IInv

LEMMA NextIInv == IInv /\ [Next]_vars => IInv'
<1> SUFFICES ASSUME IInv, [Next]_vars PROVE IInv'
  OBVIOUS
<1>1. CASE UNCHANGED vars
  BY <1>1, StutterStep
<1>2. ASSUME NEW t \in Threads, NEW u \in Users, Register(t, u)
      PROVE  IInv'
  <2>1. /\ Begin(t, "mint", u, "new", "refresh", password[u])
        /\ users' = users \cup {u}
        /\ UNCHANGED <<password, verified, tokens, shared, raced>>
    BY <1>2 DEF Register
  <2>2. users' \subseteq Users /\ password[u] \in Nat /\ "refresh" \in Kinds
    BY <2>1 DEF IInv, TypeOK, Kinds
  <2>3. QED
    BY <2>1, <2>2, BeginNewStep
<1>3. ASSUME NEW t \in Threads, NEW u \in Users, Login(t, u)
      PROVE  IInv'
  <2>1. /\ Begin(t, "mint", u, "new", "refresh", password[u])
        /\ UNCHANGED <<users, password, verified, tokens, shared, raced>>
    BY <1>3 DEF Login
  <2>2. users' \subseteq Users /\ password[u] \in Nat /\ "refresh" \in Kinds
    BY <2>1 DEF IInv, TypeOK, Kinds
  <2>3. QED
    BY <2>1, <2>2, BeginNewStep
<1>4. ASSUME NEW t \in Threads, NEW u \in Users, NEW k \in OneTimeKinds, RequestToken(t, u, k)
      PROVE  IInv'
  <2>1. /\ Begin(t, "mint", u, "new", k, 0)
        /\ UNCHANGED <<users, password, verified, tokens, shared, raced>>
    BY <1>4 DEF RequestToken
  <2>2. users' \subseteq Users /\ 0 \in Nat /\ k \in Kinds /\ k # "refresh"
    BY <2>1 DEF IInv, TypeOK, Kinds, OneTimeKinds
  <2>3. QED
    BY <2>1, <2>2, BeginNewStep
<1>5. ASSUME NEW t \in Threads, NEW i \in TokenIds, ConfirmReset(t, i)
      PROVE  IInv'
  <2>1. /\ ActiveToken(i, "password_reset")
        /\ Begin(t, "write", tokens[i].user, i, "password_reset", 0)
        /\ shared' = SharedAfter(i)
        /\ UNCHANGED <<users, password, verified, tokens, raced>>
    BY <1>5 DEF ConfirmReset
  <2>2. "password_reset" \in OneTimeKinds
    BY DEF OneTimeKinds
  <2>3. QED
    BY <2>1, <2>2, ConfirmStep
<1>6. ASSUME NEW t \in Threads, NEW i \in TokenIds, ConfirmVerification(t, i)
      PROVE  IInv'
  <2>1. /\ ActiveToken(i, "email_verification")
        /\ Begin(t, "verify", tokens[i].user, i, "email_verification", 0)
        /\ shared' = SharedAfter(i)
        /\ UNCHANGED <<users, password, verified, tokens, raced>>
    BY <1>6 DEF ConfirmVerification
  <2>2. "email_verification" \in OneTimeKinds
    BY DEF OneTimeKinds
  <2>3. QED
    BY <2>1, <2>2, ConfirmStep
<1>7. ASSUME NEW t \in Threads, NEW i \in TokenIds, Refresh(t, i) \/ Logout(t, i)
      PROVE  IInv'
  BY <1>7, RefreshStep, LogoutStep
<1>8. ASSUME NEW t \in Threads,
             \/ RevokePresented(t) \/ Mint(t) \/ RevokeLoggedOut(t)
             \/ UpdateUserPassword(t) \/ MarkVerified(t) \/ Consume(t)
             \/ RevokeUserTokens(t) \/ Stop(t)
      PROVE  IInv'
  BY <1>8, RevokePresentedStep, MintStep, RevokeLoggedOutStep, UpdateUserPasswordStep,
     MarkVerifiedStep, ConsumeStep, RevokeUserTokensStep, StopStep
<1>9. ASSUME NEW i \in TokenIds, Expire(i)
      PROVE  IInv'
  BY <1>9, ExpireStep
<1>10. QED
  BY <1>1, <1>2, <1>3, <1>4, <1>5, <1>6, <1>7, <1>8, <1>9 DEF Next

LEMMA SpecIInv == Spec => []IInv
BY InitIInv, NextIInv, PTL DEF Spec

-----------------------------------------------------------------------------
(* The type invariant of app/api/routes.py's requests and of auth_tokens.    *)
THEOREM TypeCorrect == Spec => []TypeOK
<1>1. IInv => TypeOK
  BY DEF IInv
<1>2. QED
  BY <1>1, SpecIInv, PTL

(* A reset or verification token has its effect once, for any number of      *)
(* requests, tokens and stops between calls, unless two requests held it at  *)
(* once or one stopped before consuming it.                                  *)
THEOREM OneTimeTokensAreUsedOnce == Spec => []OneTimeTokens
<1>1. IInv => OneTimeTokens
  BY DEF IInv, OneTimeInv, OneTimeTokens, Issued
<1>2. QED
  BY <1>1, SpecIInv, PTL

(* Rotation leaves each sign-in one active refresh token at most, for any    *)
(* length of the chain, unless two requests presented one token at once.     *)
THEOREM RotationKeepsOne == Spec => []OneTokenPerSignIn
<1>1. IInv => OneTokenPerSignIn
  BY DEF IInv, RotationInv
<1>2. QED
  BY <1>1, SpecIInv, PTL

(* Sessions follow the password through resets, for any number of sign-ins,  *)
(* rotations and resets under way at the same time.                          *)
THEOREM ResetEndsSessions == Spec => []SessionsFollowPassword
<1>1. ASSUME IInv PROVE SessionsFollowPassword
  <2> SUFFICES ASSUME NEW i \in TokenIds, ActiveToken(i, "refresh"), tokens[i].user \notin raced,
                      \A t \in Threads : ~Resetting(t, tokens[i].user)
               PROVE  tokens[i].era = password[tokens[i].user]
    BY DEF SessionsFollowPassword
  <2>1. PICK u \in Users : u = tokens[i].user
    BY <1>1, TokenRecord DEF IInv, ActiveToken, IsActive, Token
  <2>2. \A t \in Threads : ~Resetting(t, u)
    BY <2>1 DEF Resetting
  <2>3. QED
    BY <1>1, <2>1, <2>2 DEF IInv, SessionsInv
<1>2. QED
  BY <1>1, SpecIInv, PTL
=============================================================================
