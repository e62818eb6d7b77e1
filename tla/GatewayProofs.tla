--------------------------- MODULE GatewayProofs ---------------------------
(***************************************************************************)
(* What the gateway promises, for any number of clients, users, tokens and *)
(* calls under way: a role is good for one lifetime of a token at most,    *)
(* and no minute holds more of a client's calls than the limit.            *)
(***************************************************************************)
EXTENDS Gateway, TLAPS, WellFoundedInduction, FiniteSetTheorems, SequenceTheorems

-----------------------------------------------------------------------------
(* Roles. The limiter plays no part in them.                               *)

CallRecord == [pc : {"idle", "reading", "forwarded"}, route : Used \cup {None},
               user : User \cup {None}, role : Role \cup {None}, at : Int, held : Int]

\* The clock of held: nobody had a role later than now, and everybody has his own now.
HeldInv ==
    /\ now \in Nat
    /\ users \in [User -> Role]
    /\ held \in [User -> [Role -> Int]]
    /\ \A u \in User, r \in Role : held[u][r] <= now
    /\ \A u \in User : held[u][users[u]] = now

\* A token expires one lifetime after its user last had its role, or earlier.
TokenInv ==
    /\ tokens \subseteq [user : User, role : Role, exp : Int]
    /\ \A k \in tokens : k.exp <= held[k.user][k.role] + JWT_EXPIRY

CallInv ==
    /\ call \in [Call -> CallRecord]
    /\ RoleWasHeld

RoleInv == HeldInv /\ TokenInv /\ CallInv

-----------------------------------------------------------------------------
LEMMA InitRole == Init => RoleInv
<1> SUFFICES ASSUME Init PROVE RoleInv
    OBVIOUS
<1>1. JWT_EXPIRY \in Nat
      BY GatewayConstants
<1>2. HeldInv
      BY <1>1 DEF Init, HeldInv, Never
<1>3. TokenInv
      BY DEF Init, TokenInv
<1>4. CallInv
      BY DEF Init, CallInv, CallRecord, RoleWasHeld, Unused, Unchecked
<1> QED BY <1>2, <1>3, <1>4 DEF RoleInv

\* The clock and the table only move the time a role was last held forwards.
LEMMA HeldGrows ==
    ASSUME RoleInv, [Next]_vars
    PROVE  /\ HeldInv'
           /\ \A u \in User, r \in Role : held[u][r] <= held'[u][r]
<1> USE DEF HeldInv
<1>1. HeldInv
      BY DEF RoleInv
<1>2. CASE UNCHANGED <<now, users, held>>
      BY <1>1, <1>2
<1>3. CASE tick
      BY <1>1, <1>3 DEF tick
<1>4. ASSUME NEW v \in User, NEW s \in Role, change_role(v, s)
      PROVE  /\ HeldInv'
             /\ \A u \in User, r \in Role : held[u][r] <= held'[u][r]
      BY <1>1, <1>4 DEF change_role
<1>5. QED
      BY <1>2, <1>3, <1>4 DEF Next, vars, restart, rate_limited, login_fails, login, let_in,
                              begin, forward, refuse

LEMMA TokensAge ==
    ASSUME RoleInv, [Next]_vars
    PROVE  TokenInv'
<1>1. /\ HeldInv /\ TokenInv /\ HeldInv'
      /\ \A u \in User, r \in Role : held[u][r] <= held'[u][r]
      BY HeldGrows DEF RoleInv
<1>2. JWT_EXPIRY \in Nat
      BY GatewayConstants
<1>3. CASE UNCHANGED tokens
  <2> SUFFICES ASSUME NEW k \in tokens
               PROVE  k.exp <= held'[k.user][k.role] + JWT_EXPIRY
      BY <1>1, <1>3 DEF TokenInv
  <2>1. k \in [user : User, role : Role, exp : Int] /\ k.exp <= held[k.user][k.role] + JWT_EXPIRY
      BY <1>1 DEF TokenInv
  <2>2. held[k.user][k.role] \in Int /\ held'[k.user][k.role] \in Int
      BY <1>1, <2>1 DEF HeldInv
  <2>3. held[k.user][k.role] <= held'[k.user][k.role]
      BY <1>1, <2>1
  <2> QED BY <1>2, <2>1, <2>2, <2>3
<1>4. ASSUME NEW c \in Client, NEW u \in User, login(c, u)
      PROVE  TokenInv'
      BY <1>1, <1>2, <1>4 DEF TokenInv, HeldInv, login, issue_token
<1>5. QED
      BY <1>3, <1>4 DEF Next, vars, tick, change_role, restart, rate_limited, login_fails,
                        begin, forward, refuse

LEMMA CallsKeep ==
    ASSUME RoleInv, [Next]_vars
    PROVE  CallInv'
<1>1. HeldInv /\ TokenInv /\ CallInv
      BY DEF RoleInv
<1>2. JWT_EXPIRY \in Nat
      BY GatewayConstants
<1>3. CASE UNCHANGED call
      BY <1>1, <1>3 DEF CallInv, RoleWasHeld
<1>4. ASSUME NEW q \in Call, NEW c \in Client, NEW route \in Used, begin(q, c, route)
      PROVE  CallInv'
  <2>1. Unchecked("reading", route) \in CallRecord /\ Unchecked("reading", route).pc = "reading"
      BY DEF CallRecord, Unchecked
  <2>2. call' = [call EXCEPT ![q] = Unchecked("reading", route)]
      BY <1>4 DEF begin
  <2> QED BY <1>1, <2>1, <2>2 DEF CallInv, RoleWasHeld
<1>5. ASSUME NEW q \in Call, forward(q)
      PROVE  CallInv'
  <2>1. PICK k \in tokens : /\ k.exp > now
                            /\ k.role \in allowed(call[q].route)
                            /\ call' = [call EXCEPT ![q].pc = "forwarded", ![q].user = k.user,
                                            ![q].role = k.role, ![q].at = now,
                                            ![q].held = held[k.user][k.role]]
      BY <1>5 DEF forward, get_current_user
  <2>2. /\ k \in [user : User, role : Role, exp : Int]
        /\ k.exp <= held[k.user][k.role] + JWT_EXPIRY
        /\ held[k.user][k.role] \in Int
        /\ now \in Int
      BY <1>1 DEF TokenInv, HeldInv
  <2>3. now < held[k.user][k.role] + JWT_EXPIRY
      BY <1>2, <2>1, <2>2
  <2> DEFINE new == [call[q] EXCEPT !.pc = "forwarded", !.user = k.user, !.role = k.role,
                                    !.at = now, !.held = held[k.user][k.role]]
  <2>4. call[q] \in CallRecord
      BY <1>1 DEF CallInv
  <2>5. /\ new \in CallRecord
        /\ new.role \in allowed(new.route)
        /\ new.at < new.held + JWT_EXPIRY
      BY <2>1, <2>2, <2>3, <2>4 DEF CallRecord
  <2>6. call' = [call EXCEPT ![q] = new]
      BY <1>1, <2>1 DEF CallInv
  <2> HIDE DEF new
  <2> QED BY <1>1, <2>5, <2>6 DEF CallInv, RoleWasHeld
<1>6. ASSUME NEW q \in Call, refuse(q)
      PROVE  CallInv'
      BY <1>1, <1>6 DEF CallInv, CallRecord, RoleWasHeld, refuse, Unused, Unchecked
<1>7. CASE restart
      BY <1>1, <1>7 DEF CallInv, CallRecord, RoleWasHeld, restart, Unused, Unchecked
<1>8. QED
      BY <1>3, <1>4, <1>5, <1>6, <1>7 DEF Next, vars, tick, change_role, rate_limited,
                                          login, login_fails

\* Whoever is let through to a service had the role he is let through for, a role the route
\* asks for, less than one token lifetime before, whatever happens to the users table and
\* to the process meanwhile.
THEOREM RolesWereHeld == Spec => []RoleWasHeld
<1>1. Init => RoleInv
      BY InitRole
<1>2. RoleInv /\ [Next]_vars => RoleInv'
      BY HeldGrows, TokensAge, CallsKeep DEF RoleInv
<1>3. RoleInv => RoleWasHeld
      BY DEF RoleInv, CallInv
<1>4. QED
      BY <1>1, <1>2, <1>3, PTL DEF Spec

-----------------------------------------------------------------------------
(* Sums over a set.                                                        *)

\* A set of numbers has a smallest one.
LEMMA Smallest ==
    ASSUME NEW T \in SUBSET Nat, T # {}
    PROVE  \E i \in T : \A j \in T : i <= j
<1> DEFINE less == OpToRel(<, Nat)
<1>1. \A x \in Nat, y \in Nat : x < y => <<x, y>> \in less
  BY DEF OpToRel
<1>2. PICK x \in T : \A y \in T : ~(<<y, x>> \in less)
  <2> HIDE DEF less
  <2>1. IsWellFoundedOn(less, Nat)
    BY NatLessThanWellFounded DEF less
  <2> QED  BY <2>1, WFMin
<1>3. \A y \in T : x <= y
  <2> HIDE DEF less
  <2>1. \A y \in T : y \in Nat /\ x \in Nat /\ ~(y < x)
    BY <1>1, <1>2
  <2> QED  BY <2>1
<1> QED  BY <1>3

\* The subsets of S of at most n elements.
Small(S, n) == {s \in SUBSET S : Cardinality(s) <= n}

\* g sums f over those sets, taking one element after another.
Sums(g, f, S, n) ==
    g = [s \in Small(S, n) |-> IF s = {} THEN 0
                               ELSE LET x == CHOOSE y \in s : TRUE IN f[x] + g[s \ {x}]]

\* A set without its chosen element is smaller.
LEMMA Smaller ==
    ASSUME NEW S, IsFiniteSet(S), NEW s \in SUBSET S, s # {}
    PROVE  LET x == CHOOSE y \in s : TRUE
           IN  /\ x \in s /\ Cardinality(s) \in Nat \ {0}
               /\ Cardinality(s \ {x}) = Cardinality(s) - 1
<1> DEFINE x == CHOOSE y \in s : TRUE
<1>1. x \in s
  OBVIOUS
<1>2. IsFiniteSet(s)
  BY FS_Subset
<1>3. Cardinality(s) \in Nat /\ (Cardinality(s) = 0 <=> s = {})
  BY <1>2, FS_CardinalityType, FS_EmptySet
<1>4. Cardinality(s \ {x}) = Cardinality(s) - 1
  <2> HIDE DEF x
  <2> QED  BY <1>1, <1>2, FS_RemoveElement
<1> QED  BY <1>1, <1>3, <1>4

\* The recursive definition of a sum defines something.
LEMMA SumsExist ==
    ASSUME NEW f, NEW S, IsFiniteSet(S), NEW m \in Nat
    PROVE  \E g : Sums(g, f, S, m)
<1> DEFINE T == {n \in Nat : ~ \E g : Sums(g, f, S, n)}
<1> SUFFICES ASSUME T # {}
             PROVE  FALSE
  OBVIOUS
<1>1. PICK n \in T : \A j \in T : n <= j
  <2>1. T \in SUBSET Nat
    OBVIOUS
  <2> HIDE DEF T
  <2> QED  BY <2>1, Smallest
<1>2. n \in Nat /\ ~ \E g : Sums(g, f, S, n)
  OBVIOUS
<1>0. \A s \in SUBSET S : Cardinality(s) \in Nat
  BY FS_Subset, FS_CardinalityType
<1>3. CASE n = 0
  <2> DEFINE g == [s \in Small(S, 0) |-> 0]
  <2>1. ASSUME NEW s \in Small(S, 0), s # {}
        PROVE  FALSE
    <3>1. Cardinality(s) \in Nat \ {0}
      BY <2>1, Smaller DEF Small
    <3> QED  BY <3>1 DEF Small
  <2>2. Sums(g, f, S, 0)
    BY <2>1 DEF Sums
  <2> QED  BY <1>2, <1>3, <2>2
<1>4. CASE n # 0
  <2>1. n - 1 \in Nat /\ n - 1 \notin T
    BY <1>1, <1>2, <1>4
  <2>2. PICK h : Sums(h, f, S, n - 1)
    BY <2>1
  <2> DEFINE next(s) == IF s = {} THEN 0
                        ELSE LET x == CHOOSE y \in s : TRUE IN f[x] + h[s \ {x}]
             g == [s \in Small(S, n) |-> next(s)]
  <2>3. \A s \in Small(S, n - 1) : s \in Small(S, n) /\ h[s] = next(s)
    <3> HIDE DEF T
    <3>1. \A s \in Small(S, n - 1) : h[s] = next(s)
      BY <2>2 DEF Sums
    <3>2. Small(S, n - 1) \subseteq Small(S, n)
      BY <1>0, <1>2 DEF Small
    <3> QED  BY <3>1, <3>2
  <2>4. ASSUME NEW s \in Small(S, n), s # {}
        PROVE  LET x == CHOOSE y \in s : TRUE IN s \ {x} \in Small(S, n - 1)
    BY <1>0, <1>2, <2>4, Smaller DEF Small
  <2>5. \A s \in Small(S, n) : s # {} =>
            LET x == CHOOSE y \in s : TRUE IN g[s \ {x}] = h[s \ {x}]
    <3> HIDE DEF next
    <3> QED  BY <2>3, <2>4
  <2>6. \A s \in Small(S, n) : g[s] = IF s = {} THEN 0
                               ELSE LET x == CHOOSE y \in s : TRUE IN f[x] + g[s \ {x}]
    <3>1. \A s \in Small(S, n) : g[s] = next(s)
      OBVIOUS
    <3> HIDE DEF g
    <3> QED  BY <2>5, <3>1
  <2>7. g = [s \in Small(S, n) |-> g[s]]
    OBVIOUS
  <2>8. Sums(g, f, S, n)
    <3> HIDE DEF g
    <3> QED  BY <2>6, <2>7 DEF Sums
  <2> QED  BY <1>2, <2>8
<1> QED  BY <1>3, <1>4

\* g sums f over all subsets of S.
Summed(g, f, S) ==
    \A s \in SUBSET S : g[s] = IF s = {} THEN 0
                               ELSE LET x == CHOOSE y \in s : TRUE IN f[x] + g[s \ {x}]

\* Which is what a sum is.
LEMMA SumIs ==
    ASSUME NEW f, NEW S, IsFiniteSet(S)
    PROVE  \E g : SumFunctionOnSet(f, S) = g[S] /\ Summed(g, f, S)
<1>1. Cardinality(S) \in Nat /\ Small(S, Cardinality(S)) = SUBSET S
  <2>1. Cardinality(S) \in Nat
    BY FS_CardinalityType
  <2>2. \A s \in SUBSET S : Cardinality(s) <= Cardinality(S)
    BY FS_Subset
  <2> QED  BY <2>1, <2>2 DEF Small
<1> DEFINE Rec(h) == h = [s \in SUBSET S |-> IF s = {} THEN 0
                                ELSE LET x == CHOOSE y \in s : TRUE IN f[x] + h[s \ {x}]]
           g == CHOOSE h : Rec(h)
<1>2. \E h : Rec(h)
  <2>1. PICK h : Sums(h, f, S, Cardinality(S))
    BY <1>1, SumsExist
  <2> QED  BY <1>1, <2>1 DEF Sums
<1>3. SumFunctionOnSet(f, S) = g[S]
  BY DEF SumFunctionOnSet, FoldFunctionOnSet, MapThenFoldSet
<1>4. Rec(g)
  <2> HIDE DEF Rec
  <2> QED  BY <1>2
<1> HIDE DEF g
<1> QED  BY <1>3, <1>4 DEF Summed

\* What holds of the empty set, and of a set when it holds of it without its chosen
\* element, holds of every finite set.
LEMMA ByElement ==
    ASSUME NEW S, IsFiniteSet(S), NEW Good \in SUBSET (SUBSET S), {} \in Good,
           \A s \in SUBSET S :
               s # {} /\ s \ {CHOOSE y \in s : TRUE} \in Good => s \in Good
    PROVE  S \in Good
<1> DEFINE T == {Cardinality(s) : s \in SUBSET S \ Good}
<1> SUFFICES ASSUME S \notin Good
             PROVE  FALSE
  OBVIOUS
<1>1. \A s \in SUBSET S : Cardinality(s) \in Nat
  BY FS_Subset, FS_CardinalityType
<1>2. T \in SUBSET Nat /\ T # {}
  BY <1>1
<1>3. PICK n \in T : \A j \in T : n <= j
  <2> HIDE DEF T
  <2> QED  BY <1>2, Smallest
<1>4. PICK s \in SUBSET S \ Good : n = Cardinality(s)
  BY <1>3
<1>5. PICK x : x = CHOOSE y \in s : TRUE
  OBVIOUS
<1>6. s # {} /\ s \ {x} \notin Good /\ s \ {x} \in SUBSET S
  BY <1>4, <1>5
<1>7. Cardinality(s) \in Nat /\ Cardinality(s \ {x}) = Cardinality(s) - 1
  BY <1>1, <1>5, <1>6, Smaller
<1>8. Cardinality(s \ {x}) \in T
  BY <1>6
<1> QED  BY <1>3, <1>4, <1>7, <1>8

\* A sum of numbers is a number.
LEMMA SumIsNat ==
    ASSUME NEW S, IsFiniteSet(S), NEW f, \A s \in S : f[s] \in Nat
    PROVE  SumFunctionOnSet(f, S) \in Nat
<1>1. PICK g : SumFunctionOnSet(f, S) = g[S] /\ Summed(g, f, S)
  BY SumIs
<1> DEFINE Good == {s \in SUBSET S : g[s] \in Nat}
<1>2. {} \in Good
  BY <1>1 DEF Summed
<1>3. ASSUME NEW s \in SUBSET S, s # {}, s \ {CHOOSE y \in s : TRUE} \in Good
      PROVE  s \in Good
  <2>1. PICK x : x = CHOOSE y \in s : TRUE
    OBVIOUS
  <2>2. x \in s
    BY <1>3, <2>1
  <2>3. g[s \ {x}] \in Nat /\ g[s] = f[x] + g[s \ {x}]
    BY <1>1, <1>3, <2>1 DEF Summed
  <2> QED  BY <2>2, <2>3
<1>4. S \in Good
  <2> HIDE DEF Good
  <2>1. Good \in SUBSET (SUBSET S)
    BY DEF Good
  <2> QED  BY <1>2, <1>3, <2>1, ByElement
<1> QED  BY <1>1, <1>4

\* One more at n makes the sums over sets with n one larger, and no other.
LEMMA SumOfOneMore ==
    ASSUME NEW S, IsFiniteSet(S), NEW f, NEW e, NEW n,
           \A s \in S : f[s] \in Nat /\ e[s] = IF s = n THEN f[s] + 1 ELSE f[s]
    PROVE  SumFunctionOnSet(e, S) = SumFunctionOnSet(f, S) + IF n \in S THEN 1 ELSE 0
<1>1. PICK g : SumFunctionOnSet(f, S) = g[S] /\ Summed(g, f, S)
  BY SumIs
<1>2. PICK h : SumFunctionOnSet(e, S) = h[S] /\ Summed(h, e, S)
  BY SumIs
<1> DEFINE Right(s) == g[s] \in Nat /\ h[s] = g[s] + IF n \in s THEN 1 ELSE 0
           Good == {s \in SUBSET S : Right(s)}
<1>3. {} \in Good
  <2>1. g[{}] = 0 /\ h[{}] = 0
    BY <1>1, <1>2 DEF Summed
  <2> QED  BY <2>1
<1>4. ASSUME NEW s \in SUBSET S, s # {}, s \ {CHOOSE y \in s : TRUE} \in Good
      PROVE  s \in Good
  <2>1. PICK x : x = CHOOSE y \in s : TRUE
    OBVIOUS
  <2>2. x \in s /\ f[x] \in Nat /\ e[x] = IF x = n THEN f[x] + 1 ELSE f[x]
    BY <1>4, <2>1
  <2>3. /\ g[s] = f[x] + g[s \ {x}]
        /\ h[s] = e[x] + h[s \ {x}]
    BY <1>1, <1>2, <1>4, <2>1 DEF Summed
  <2>4. g[s \ {x}] \in Nat /\ h[s \ {x}] = g[s \ {x}] + IF n \in s \ {x} THEN 1 ELSE 0
    BY <1>4, <2>1
  <2>5. Right(s)
    <3>1. CASE x = n
      BY <2>2, <2>3, <2>4, <3>1
    <3>2. CASE x # n
      BY <2>2, <2>3, <2>4, <3>2
    <3> QED  BY <3>1, <3>2
  <2> QED  BY <2>5
<1>5. S \in Good
  <2> HIDE DEF Good
  <2>1. Good \in SUBSET (SUBSET S)
    BY DEF Good
  <2> QED  BY <1>3, <1>4, <2>1, ByElement
<1> QED  BY <1>1, <1>2, <1>5

\* Nothing adds up to nothing.
LEMMA SumOfNone ==
    ASSUME NEW S, IsFiniteSet(S), NEW f, \A s \in S : f[s] = 0
    PROVE  SumFunctionOnSet(f, S) = 0
<1>1. PICK g : SumFunctionOnSet(f, S) = g[S] /\ Summed(g, f, S)
  BY SumIs
<1> DEFINE Good == {s \in SUBSET S : g[s] = 0}
<1>2. {} \in Good
  BY <1>1 DEF Summed
<1>3. ASSUME NEW s \in SUBSET S, s # {}, s \ {CHOOSE y \in s : TRUE} \in Good
      PROVE  s \in Good
  <2>1. PICK x : x = CHOOSE y \in s : TRUE
    OBVIOUS
  <2>2. x \in s
    BY <1>3, <2>1
  <2>3. g[s \ {x}] = 0 /\ g[s] = f[x] + g[s \ {x}]
    BY <1>1, <1>3, <2>1 DEF Summed
  <2> QED  BY <2>2, <2>3
<1>4. S \in Good
  <2> HIDE DEF Good
  <2>1. Good \in SUBSET (SUBSET S)
    BY DEF Good
  <2> QED  BY <1>2, <1>3, <2>1, ByElement
<1> QED  BY <1>1, <1>4

-----------------------------------------------------------------------------
(* The limiter. A window holds every call of the last minute: the calls    *)
(* from t on that were let in are no more than the entries from the first  *)
(* one that is not before t.                                               *)

Covers(w, n, t) ==
    \E k \in 0 .. Len(w) : /\ \A i \in 1 .. k : w[i] < t
                           /\ k < Len(w) => w[k + 1] >= t
                           /\ n <= Len(w) - k

Window(w) == w \in Seq(Nat) /\ \A i \in 1 .. Len(w) : w[i] <= now

\* The minute from t on.
From(t) == {s \in Time : t <= s /\ s < t + Minute}

LimitInv ==
    /\ now \in Time
    /\ counted \in [Client -> [Time -> Nat]]
    /\ DOMAIN request_windows = Client
    /\ \A c \in Client : /\ Window(request_windows[c])
                         /\ Len(request_windows[c]) <= RATE_LIMIT_PER_MIN
    /\ \A c \in Client, t \in Time : t > now - Minute =>
           Covers(request_windows[c], SumFunctionOnSet(counted[c], From(t)), t)
    /\ RateIsBounded

LEMMA FromFinite ==
    ASSUME NEW t \in Time
    PROVE  IsFiniteSet(From(t))
<1>1. IsFiniteSet(Time)
  BY GatewayConstants, FS_Interval DEF Time
<1> QED  BY <1>1, FS_Subset DEF From

\* How many calls are dropped from the left.
LEMMA ExpiredIs ==
    ASSUME now \in Nat, NEW w, Window(w)
    PROVE  /\ expired(w) \in 0 .. Len(w)
           /\ \A i \in 1 .. expired(w) : w[i] <= now - Minute
           /\ expired(w) < Len(w) => w[expired(w) + 1] > now - Minute
<1> DEFINE T == {i \in 1 .. Len(w) + 1 : i <= Len(w) => w[i] > now - Minute}
           Edge(k) == /\ \A i \in 1 .. k : w[i] <= now - Minute
                      /\ k < Len(w) => w[k + 1] > now - Minute
<1>1. Len(w) \in Nat /\ Minute \in Nat /\ \A i \in 1 .. Len(w) : w[i] \in Nat
  BY GatewayConstants DEF Window
<1>2. T \in SUBSET Nat /\ Len(w) + 1 \in T
  BY <1>1
<1>3. PICK k \in T : \A j \in T : k <= j
  <2> HIDE DEF T
  <2> QED  BY <1>2, Smallest
<1>4. k - 1 \in 0 .. Len(w) /\ Edge(k - 1)
  <2>1. \A i \in 1 .. k - 1 : i \in 1 .. Len(w) /\ i \notin T
    BY <1>1, <1>3
  <2>2. \A i \in 1 .. k - 1 : w[i] <= now - Minute
    BY <1>1, <2>1
  <2> QED  BY <1>1, <1>3, <2>2
<1>5. expired(w) = CHOOSE i \in 0 .. Len(w) : Edge(i)
  BY DEF expired
<1>6. expired(w) \in 0 .. Len(w) /\ Edge(expired(w))
  <2> HIDE DEF Edge
  <2> QED  BY <1>4, <1>5
<1> QED  BY <1>6

\* They are dropped, and none of the last minute is.
LEMMA SlidWindow ==
    ASSUME now \in Nat, NEW w, Window(w)
    PROVE  /\ Window(slid(w)) /\ Len(slid(w)) <= Len(w)
           /\ \A n \in Nat, t \in Nat : t > now - Minute /\ Covers(w, n, t) =>
                  Covers(slid(w), n, t)
<1>1. PICK e \in 0 .. Len(w) : /\ e = expired(w)
                               /\ \A i \in 1 .. e : w[i] <= now - Minute
                               /\ e < Len(w) => w[e + 1] > now - Minute
  BY ExpiredIs
<1>2. /\ Len(w) \in Nat /\ Minute \in Nat /\ w \in Seq(Nat)
      /\ \A i \in 1 .. Len(w) : w[i] \in Nat /\ w[i] <= now
  BY GatewayConstants DEF Window
<1>3. PICK v : v = slid(w)
  OBVIOUS
<1>4. /\ v \in Seq(Nat) /\ Len(v) = Len(w) - e
      /\ \A i \in 1 .. Len(w) - e : v[i] = w[i + e]
  <2>1. v = SubSeq(w, e + 1, Len(w))
    BY <1>1, <1>3 DEF slid
  <2>2. e + 1 \in 1 .. Len(w) + 1
    BY <1>1, <1>2
  <2>3. /\ v \in Seq(Nat) /\ Len(v) = IF e + 1 <= Len(w) THEN Len(w) - (e + 1) + 1 ELSE 0
        /\ \A i \in 1 .. Len(w) - (e + 1) + 1 : v[i] = w[(e + 1) + i - 1]
    BY <1>2, <2>1, <2>2, SubSeqProperties
  <2>4. Len(v) = Len(w) - e
    BY <1>1, <1>2, <2>3
  <2>5. ASSUME NEW i \in 1 .. Len(w) - e
        PROVE  v[i] = w[i + e]
    <3>1. i \in 1 .. Len(w) - (e + 1) + 1 /\ (e + 1) + i - 1 = i + e
      BY <1>1, <1>2
    <3> QED  BY <2>3, <3>1
  <2> QED  BY <2>3, <2>4, <2>5
<1>5. Window(v)
  BY <1>2, <1>4 DEF Window
<1>6. ASSUME NEW n \in Nat, NEW t \in Nat, t > now - Minute, Covers(w, n, t)
      PROVE  Covers(v, n, t)
  <2>1. PICK k \in 0 .. Len(w) : /\ \A i \in 1 .. k : w[i] < t
                                 /\ k < Len(w) => w[k + 1] >= t
                                 /\ n <= Len(w) - k
    BY <1>6 DEF Covers
  <2>2. e <= k
    <3>1. ASSUME k < e
          PROVE  FALSE
      <4>1. k + 1 \in 1 .. e /\ w[k + 1] >= t /\ w[k + 1] \in Nat
        BY <1>2, <2>1, <3>1
      <4>2. w[k + 1] <= now - Minute
        BY <1>1, <4>1
      <4> QED  BY <1>2, <1>6, <4>1, <4>2
    <3> QED  BY <1>2, <3>1
  <2>3. k - e \in 0 .. Len(v) /\ n <= Len(v) - (k - e)
    BY <1>2, <1>4, <2>1, <2>2
  <2>4. \A i \in 1 .. k - e : v[i] < t
    <3> SUFFICES ASSUME NEW i \in 1 .. k - e
                 PROVE  v[i] < t
      OBVIOUS
    <3>1. i \in 1 .. Len(w) - e /\ i + e \in 1 .. k
      BY <1>2, <2>2
    <3> QED  BY <1>4, <2>1, <3>1
  <2>5. k - e < Len(v) => v[(k - e) + 1] >= t
    <3> SUFFICES ASSUME k - e < Len(v)
                 PROVE  v[(k - e) + 1] >= t
      OBVIOUS
    <3>1. (k - e) + 1 \in 1 .. Len(w) - e /\ ((k - e) + 1) + e = k + 1 /\ k < Len(w)
      BY <1>2, <1>4, <2>2
    <3> QED  BY <1>4, <2>1, <3>1
  <2> QED  BY <2>3, <2>4, <2>5 DEF Covers
<1> QED  BY <1>2, <1>3, <1>4, <1>5, <1>6

\* A call that is let in is entered.
LEMMA EnteredWindow ==
    ASSUME now \in Nat, NEW w, Window(w)
    PROVE  /\ Window(Append(w, now)) /\ Len(Append(w, now)) = Len(w) + 1
           /\ \A n \in Nat, t \in Nat : Covers(w, n, t) =>
                  Covers(Append(w, now), n + (IF t <= now THEN 1 ELSE 0), t)
<1>1. /\ Len(w) \in Nat /\ w \in Seq(Nat)
      /\ \A i \in 1 .. Len(w) : w[i] \in Nat /\ w[i] <= now
  BY DEF Window
<1>2. PICK v : v = Append(w, now)
  OBVIOUS
<1>3. /\ v \in Seq(Nat) /\ Len(v) = Len(w) + 1 /\ v[Len(w) + 1] = now
      /\ \A i \in 1 .. Len(w) : v[i] = w[i]
  BY <1>1, <1>2
<1>4. Window(v)
  <2> SUFFICES ASSUME NEW i \in 1 .. Len(w) + 1
               PROVE  v[i] <= now
    BY <1>3 DEF Window
  <2>1. i \in 1 .. Len(w) \/ i = Len(w) + 1
    BY <1>1
  <2> QED  BY <1>1, <1>3, <2>1
<1>5. ASSUME NEW n \in Nat, NEW t \in Nat, Covers(w, n, t)
      PROVE  Covers(v, n + (IF t <= now THEN 1 ELSE 0), t)
  <2>1. PICK k \in 0 .. Len(w) : /\ \A i \in 1 .. k : w[i] < t
                                 /\ k < Len(w) => w[k + 1] >= t
                                 /\ n <= Len(w) - k
    BY <1>5 DEF Covers
  <2>2. CASE t <= now
    <3>1. k \in 0 .. Len(v) /\ \A i \in 1 .. k : v[i] < t
      <4>1. \A i \in 1 .. k : i \in 1 .. Len(w)
        BY <1>1
      <4>2. \A i \in 1 .. k : v[i] = w[i]
        BY <1>3, <4>1
      <4>3. k \in 0 .. Len(v)
        BY <1>1, <1>3
      <4> QED  BY <2>1, <4>2, <4>3
    <3>2. v[k + 1] >= t
      <4>1. CASE k < Len(w)
        <5>1. k + 1 \in 1 .. Len(w)
          BY <1>1, <4>1
        <5> QED  BY <1>3, <2>1, <4>1, <5>1
      <4>2. CASE k = Len(w)
        BY <1>3, <2>2, <4>2
      <4> QED  BY <1>1, <4>1, <4>2
    <3>3. n + (IF t <= now THEN 1 ELSE 0) <= Len(v) - k
      BY <1>1, <1>3, <2>1, <2>2
    <3> QED  BY <3>1, <3>2, <3>3 DEF Covers
  <2>3. CASE t > now
    <3>1. k = Len(w)
      <4>1. ASSUME k < Len(w)
            PROVE  FALSE
        <5>1. k + 1 \in 1 .. Len(w) /\ w[k + 1] >= t
          BY <1>1, <2>1, <4>1
        <5>2. w[k + 1] \in Nat /\ w[k + 1] <= now
          BY <1>1, <5>1
        <5> QED  BY <2>3, <5>1, <5>2
      <4> QED  BY <1>1, <4>1
    <3>2. \A i \in 1 .. Len(v) : v[i] < t
      <4>1. \A i \in 1 .. Len(v) : v[i] \in Nat /\ v[i] <= now
        BY <1>4 DEF Window
      <4> QED  BY <2>3, <4>1
    <3> QED  BY <1>1, <1>3, <2>1, <2>3, <3>1, <3>2 DEF Covers
  <2> QED  BY <2>2, <2>3
<1> QED  BY <1>2, <1>3, <1>4, <1>5

LEMMA InitLimit == Init => LimitInv
<1> SUFFICES ASSUME Init
             PROVE  LimitInv
  OBVIOUS
<1>1. /\ MaxTime \in Nat /\ RATE_LIMIT_PER_MIN \in Nat \ {0} /\ Minute \in Nat
  BY GatewayConstants
<1>2. /\ now = 0 /\ now \in Time /\ \A c \in Client : request_windows[c] = << >>
      /\ DOMAIN request_windows = Client
      /\ counted \in [Client -> [Time -> Nat]]
      /\ \A c \in Client, t \in Time : counted[c][t] = 0
  BY <1>1 DEF Init, Time
<1>3. \A c \in Client : /\ Window(request_windows[c])
                         /\ Len(request_windows[c]) <= RATE_LIMIT_PER_MIN
  <2>1. Window(<< >>) /\ Len(<< >>) = 0
    BY DEF Window
  <2>2. 0 <= RATE_LIMIT_PER_MIN
    BY <1>1
  <2> QED  BY <1>2, <2>1, <2>2
<1>4. \A c \in Client, t \in Time : SumFunctionOnSet(counted[c], From(t)) = 0
  <2> SUFFICES ASSUME NEW c \in Client, NEW t \in Time
               PROVE  SumFunctionOnSet(counted[c], From(t)) = 0
    OBVIOUS
  <2>1. \A s \in From(t) : counted[c][s] = 0
    BY <1>2 DEF From
  <2> QED  BY <2>1, FromFinite, SumOfNone
<1>5. \A t : Covers(<< >>, 0, t)
  BY DEF Covers
<1>6. \A c \in Client, t \in Time :
          Covers(request_windows[c], SumFunctionOnSet(counted[c], From(t)), t)
  BY <1>2, <1>4, <1>5
<1>7. RateIsBounded
  BY <1>1, <1>4 DEF RateIsBounded, From
<1> QED  BY <1>2, <1>3, <1>6, <1>7 DEF LimitInv

\* What is left to show when calls were counted at c: that c's window covers them.
LEMMA LimitKept ==
    ASSUME LimitInv, NEW c \in Client, NEW v, Window(v), Len(v) <= RATE_LIMIT_PER_MIN,
           request_windows' = [request_windows EXCEPT ![c] = v], now' = now,
           counted' \in [Client -> [Time -> Nat]],
           \A d \in Client \ {c} : counted'[d] = counted[d],
           \A t \in Time :
               IF t > now - Minute
               THEN Covers(v, SumFunctionOnSet(counted'[c], From(t)), t)
               ELSE SumFunctionOnSet(counted'[c], From(t))
                        = SumFunctionOnSet(counted[c], From(t))
    PROVE  LimitInv'
<1>1. /\ now \in Time /\ DOMAIN request_windows = Client /\ RateIsBounded
      /\ RATE_LIMIT_PER_MIN \in Nat /\ Minute \in Nat /\ MaxTime \in Nat
  BY GatewayConstants DEF LimitInv
<1>2. \A d \in Client : request_windows'[d] = IF d = c THEN v ELSE request_windows[d]
  BY <1>1
<1>3. \A d \in Client : Window(request_windows'[d])
                        /\ Len(request_windows'[d]) <= RATE_LIMIT_PER_MIN
  BY <1>2 DEF LimitInv
<1>4. \A d \in Client : Window(request_windows[d])'
  BY <1>3 DEF Window
<1>5. \A d \in Client, t \in Time : t > now - Minute =>
          Covers(request_windows'[d], SumFunctionOnSet(counted'[d], From(t)), t)
  BY <1>2 DEF LimitInv
<1>6. \A d \in Client, t \in Time :
          SumFunctionOnSet(counted'[d], From(t)) <= RATE_LIMIT_PER_MIN
  <2> SUFFICES ASSUME NEW d \in Client, NEW t \in Time
               PROVE  SumFunctionOnSet(counted'[d], From(t)) <= RATE_LIMIT_PER_MIN
    OBVIOUS
  <2>1. /\ SumFunctionOnSet(counted'[d], From(t)) \in Nat
        /\ SumFunctionOnSet(counted[d], From(t)) <= RATE_LIMIT_PER_MIN
    <3>1. \A s \in From(t) : counted'[d][s] \in Nat
      BY DEF From
    <3> QED  BY <1>1, <3>1, FromFinite, SumIsNat DEF RateIsBounded, From
  <2>2. CASE t > now - Minute
    <3>1. PICK w, n : w = request_windows'[d] /\ n = SumFunctionOnSet(counted'[d], From(t))
      OBVIOUS
    <3>2. Covers(w, n, t) /\ Len(w) <= RATE_LIMIT_PER_MIN /\ Len(w) \in Nat /\ n \in Nat
      BY <1>3, <1>5, <2>1, <2>2, <3>1 DEF Window
    <3>3. PICK k \in 0 .. Len(w) : n <= Len(w) - k
      BY <3>2 DEF Covers
    <3> QED  BY <1>1, <3>1, <3>2, <3>3
  <2>3. CASE ~(t > now - Minute)
    BY <2>1, <2>3
  <2> QED  BY <2>2, <2>3
<1>7. DOMAIN request_windows' = Client
  BY <1>1
<1>8. RateIsBounded'
  BY <1>6 DEF RateIsBounded, From
<1>9. \A d \in Client, t \in Time : t > now' - Minute =>
          Covers(request_windows[d], SumFunctionOnSet(counted[d], From(t)), t)'
  BY <1>5
<1> QED  BY <1>1, <1>3, <1>4, <1>7, <1>8, <1>9 DEF LimitInv

LEMMA LetIn ==
    ASSUME LimitInv, NEW c \in Client, let_in(c), now' = now
    PROVE  LimitInv'
<1>1. PICK w, v, n : /\ w = request_windows[c] /\ v = Append(slid(w), now) /\ n = counted[c]
  OBVIOUS
<1>2. /\ now \in Nat /\ now \in Time /\ Window(w) /\ RATE_LIMIT_PER_MIN \in Nat
      /\ Minute \in Nat \ {0} /\ MaxTime \in Nat
      /\ n \in [Time -> Nat] /\ counted \in [Client -> [Time -> Nat]]
  BY <1>1, GatewayConstants DEF LimitInv, Time
<1>3. /\ Len(slid(w)) < RATE_LIMIT_PER_MIN
      /\ request_windows' = [request_windows EXCEPT ![c] = v]
      /\ counted' = [counted EXCEPT ![c] = [n EXCEPT ![now] = @ + 1]]
  BY <1>1 DEF let_in
<1>4. Window(slid(w)) /\ Len(slid(w)) \in Nat
  BY <1>2, SlidWindow DEF Window
<1>5. Window(v) /\ Len(v) <= RATE_LIMIT_PER_MIN
  <2>1. Len(v) = Len(slid(w)) + 1 /\ Window(v)
    BY <1>1, <1>2, <1>4, EnteredWindow
  <2> QED  BY <1>2, <1>3, <1>4, <2>1
<1> DEFINE e == [n EXCEPT ![now] = @ + 1]
<1>6. /\ e \in [Time -> Nat]
      /\ \A s \in Time : n[s] \in Nat /\ e[s] = IF s = now THEN n[s] + 1 ELSE n[s]
  BY <1>2
<1>7. counted' = [counted EXCEPT ![c] = e]
  BY <1>3
<1> HIDE DEF e
<1>8. /\ counted' \in [Client -> [Time -> Nat]] /\ counted'[c] = e
      /\ \A d \in Client \ {c} : counted'[d] = counted[d]
  BY <1>2, <1>6, <1>7
<1>9. \A t \in Time : /\ SumFunctionOnSet(n, From(t)) \in Nat
                      /\ SumFunctionOnSet(e, From(t)) = SumFunctionOnSet(n, From(t))
                             + IF now \in From(t) THEN 1 ELSE 0
  <2> SUFFICES ASSUME NEW t \in Time
               PROVE  /\ SumFunctionOnSet(n, From(t)) \in Nat
                      /\ SumFunctionOnSet(e, From(t)) = SumFunctionOnSet(n, From(t))
                             + IF now \in From(t) THEN 1 ELSE 0
    OBVIOUS
  <2>1. IsFiniteSet(From(t)) /\ \A s \in From(t) : s \in Time
    BY FromFinite DEF From
  <2> QED  BY <1>6, <2>1, SumIsNat, SumOfOneMore
<1>10. ASSUME NEW t \in Time, t > now - Minute
       PROVE  Covers(v, SumFunctionOnSet(e, From(t)), t)
  <2>1. PICK m : m = SumFunctionOnSet(n, From(t))
    OBVIOUS
  <2>2. m \in Nat /\ t \in Nat /\ Covers(w, m, t)
    BY <1>1, <1>2, <1>9, <1>10, <2>1 DEF LimitInv, Time
  <2>3. Covers(slid(w), m, t)
    BY <1>2, <1>10, <2>2, SlidWindow
  <2>4. Covers(v, m + (IF t <= now THEN 1 ELSE 0), t)
    BY <1>1, <1>2, <1>4, <2>2, <2>3, EnteredWindow
  <2>5. now \in From(t) <=> t <= now
    BY <1>2, <1>10, <2>2 DEF From
  <2>6. SumFunctionOnSet(e, From(t)) = m + (IF t <= now THEN 1 ELSE 0)
    BY <1>9, <2>1, <2>5
  <2> QED  BY <2>4, <2>6
<1>11. ASSUME NEW t \in Time, ~(t > now - Minute)
       PROVE  SumFunctionOnSet(e, From(t)) = SumFunctionOnSet(n, From(t))
  <2>1. now \notin From(t)
    BY <1>2, <1>11 DEF From, Time
  <2> QED  BY <1>9, <2>1
<1>12. \A t \in Time :
           IF t > now - Minute
           THEN Covers(v, SumFunctionOnSet(counted'[c], From(t)), t)
           ELSE SumFunctionOnSet(counted'[c], From(t)) = SumFunctionOnSet(counted[c], From(t))
  BY <1>1, <1>8, <1>10, <1>11
<1> QED  BY <1>3, <1>5, <1>8, <1>12, LimitKept

LEMMA Limited ==
    ASSUME LimitInv, NEW c \in Client, rate_limited(c)
    PROVE  LimitInv'
<1>1. PICK w, v : w = request_windows[c] /\ v = slid(w)
  OBVIOUS
<1>2. /\ now \in Nat /\ now \in Time /\ Window(w) /\ RATE_LIMIT_PER_MIN \in Nat
      /\ counted \in [Client -> [Time -> Nat]] /\ Len(w) <= RATE_LIMIT_PER_MIN
  BY <1>1, GatewayConstants DEF LimitInv, Time
<1>3. /\ request_windows' = [request_windows EXCEPT ![c] = v]
      /\ counted' = counted /\ now' = now
  BY <1>1 DEF rate_limited
<1>4. Window(v) /\ Len(v) <= RATE_LIMIT_PER_MIN
  <2>1. Window(v) /\ Len(v) <= Len(w)
    BY <1>1, <1>2, SlidWindow
  <2> QED  BY <1>2, <2>1 DEF Window
<1>5. ASSUME NEW t \in Time, t > now - Minute
      PROVE  Covers(v, SumFunctionOnSet(counted[c], From(t)), t)
  <2>1. PICK m : m = SumFunctionOnSet(counted[c], From(t))
    OBVIOUS
  <2>2. m \in Nat
    BY <1>2, <2>1, FromFinite, SumIsNat DEF From
  <2>3. t \in Nat /\ Covers(w, m, t)
    BY <1>1, <1>5, <2>1, GatewayConstants DEF LimitInv, Time
  <2> QED  BY <1>1, <1>2, <1>5, <2>1, <2>2, <2>3, SlidWindow
<1>6. \A t \in Time :
          IF t > now - Minute
          THEN Covers(v, SumFunctionOnSet(counted'[c], From(t)), t)
          ELSE SumFunctionOnSet(counted'[c], From(t)) = SumFunctionOnSet(counted[c], From(t))
  BY <1>3, <1>5
<1> QED  BY <1>2, <1>3, <1>4, <1>6, LimitKept

LEMMA Ticks ==
    ASSUME LimitInv, tick
    PROVE  LimitInv'
<1>1. /\ now \in Nat /\ now' = now + 1 /\ now' \in Time /\ Minute \in Nat
      /\ UNCHANGED <<request_windows, counted>>
  BY GatewayConstants DEF LimitInv, tick, Time
<1>2. \A c \in Client : Window(request_windows[c])'
  <2> SUFFICES ASSUME NEW c \in Client
               PROVE  Window(request_windows[c])'
    OBVIOUS
  <2>1. Window(request_windows[c])
    BY DEF LimitInv
  <2> QED  BY <1>1, <2>1 DEF Window
<1>3. \A t \in Time : t > now' - Minute => t > now - Minute
  BY <1>1, GatewayConstants DEF Time
<1>4. RateIsBounded'
  BY <1>1 DEF LimitInv, RateIsBounded
<1> QED  BY <1>1, <1>2, <1>3, <1>4 DEF LimitInv

LEMMA Restarts ==
    ASSUME LimitInv, restart
    PROVE  LimitInv'
<1>1. /\ now' = now /\ now \in Time /\ RATE_LIMIT_PER_MIN \in Nat
      /\ DOMAIN request_windows' = Client
      /\ \A c \in Client : request_windows'[c] = << >>
      /\ counted' \in [Client -> [Time -> Nat]]
      /\ \A c \in Client, t \in Time : counted'[c][t] = 0
  BY GatewayConstants DEF LimitInv, restart
<1>2. \A c \in Client, t \in Time : SumFunctionOnSet(counted'[c], From(t)) = 0
  <2> SUFFICES ASSUME NEW c \in Client, NEW t \in Time
               PROVE  SumFunctionOnSet(counted'[c], From(t)) = 0
    OBVIOUS
  <2>1. \A s \in From(t) : counted'[c][s] = 0
    BY <1>1 DEF From
  <2> QED  BY <2>1, FromFinite, SumOfNone
<1>3. \A t : Covers(<< >>, 0, t)
  BY DEF Covers
<1>4. \A c \in Client : Window(request_windows[c])' /\ Len(request_windows'[c]) = 0
  <2>1. Window(<< >>)' /\ Len(<< >>) = 0
    BY DEF Window
  <2> QED  BY <1>1, <2>1 DEF Window
<1>5. RateIsBounded'
  BY <1>1, <1>2 DEF RateIsBounded, From
<1>6. \A c \in Client, t \in Time :
          Covers(request_windows[c], SumFunctionOnSet(counted[c], From(t)), t)'
  BY <1>1, <1>2, <1>3
<1> QED  BY <1>1, <1>4, <1>5, <1>6 DEF LimitInv

\* However a client spreads its calls over the clock, no minute, wherever it starts, holds
\* more of them than the limit, for any number of clients, any limit and any minute.
THEOREM RatesAreBounded == Spec => []RateIsBounded
<1>1. Init => LimitInv
  BY InitLimit
<1>2. LimitInv /\ [Next]_vars => LimitInv'
  <2> SUFFICES ASSUME LimitInv, [Next]_vars
               PROVE  LimitInv'
    OBVIOUS
  <2>1. CASE UNCHANGED <<now, request_windows, counted>>
    BY <2>1 DEF LimitInv, Window, RateIsBounded
  <2>2. CASE tick
    BY <2>2, Ticks
  <2>3. CASE restart
    BY <2>3, Restarts
  <2>4. ASSUME NEW c \in Client, rate_limited(c)
        PROVE  LimitInv'
    BY <2>4, Limited
  <2>5. ASSUME NEW c \in Client, let_in(c), UNCHANGED now
        PROVE  LimitInv'
    BY <2>5, LetIn
  <2> QED
    BY <2>1, <2>2, <2>3, <2>4, <2>5
    DEF Next, vars, change_role, login, login_fails, begin, forward, refuse
<1>3. LimitInv => RateIsBounded
  BY DEF LimitInv
<1> QED  BY <1>1, <1>2, <1>3, PTL DEF Spec

=============================================================================
