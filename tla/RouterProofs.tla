---------------------------- MODULE RouterProofs ----------------------------
(***************************************************************************)
(* The router, for every path and every request: how a path is split, what *)
(* a match is, and that no two entries of the table match the same request.*)
(* Facts about SplitPath are proved by induction over the path, as the     *)
(* absence of a least counterexample.                                      *)
(***************************************************************************)
EXTENDS Router, Integers, SequenceTheorems, WellFoundedInduction, TLAPS

\* A nonempty set of naturals has a least element.
LEMMA LeastNat ==
    ASSUME NEW S \in SUBSET Nat, S # {}
    PROVE  \E n \in S : \A m \in S : n <= m
<1>1. IsWellFoundedOn(OpToRel(<, Nat), Nat)
  BY NatLessThanWellFounded
<1>2. PICK n \in S : \A m \in S : ~(<<m, n>> \in OpToRel(<, Nat))
  BY <1>1, WFMin
<1>3. \A m \in S : ~(m < n)
  BY <1>2 DEF OpToRel
<1> QED BY <1>3

-----------------------------------------------------------------------------
(* Splitting                                                               *)

\* g holds what SplitPath has collected after each of the first k tokens.
Splits(g, path, k) ==
    g = [n \in 0 .. k |->
            IF n = 0 THEN <<>>
            ELSE IF path[n] = "/" THEN g[n - 1]
            ELSE Append(g[n - 1], path[n])]

\* There is such a function, of any length.
LEMMA SplitExists ==
    ASSUME NEW path, NEW k \in Nat
    PROVE  \E g : Splits(g, path, k)
<1> DEFINE S == {j \in Nat : ~ \E g : Splits(g, path, j)}
<1> SUFFICES ASSUME S # {} PROVE FALSE
  OBVIOUS
<1>1. PICK j \in S : \A i \in S : j <= i
  BY LeastNat
<1>2. CASE j = 0
  <2>1. Splits([n \in 0 .. 0 |-> <<>>], path, 0)
    BY DEF Splits
  <2> QED BY <1>1, <1>2, <2>1
<1>3. CASE j # 0
  <2>1. j - 1 \in Nat /\ j - 1 \notin S
    BY <1>1, <1>3
  <2>2. PICK g : Splits(g, path, j - 1)
    BY <2>1
  <2> DEFINE h == [n \in 0 .. j |->
                      IF n < j THEN g[n]
                      ELSE IF path[j] = "/" THEN g[j - 1]
                      ELSE Append(g[j - 1], path[j])]
  <2> DEFINE r(n) == IF n = 0 THEN <<>>
                     ELSE IF path[n] = "/" THEN h[n - 1]
                     ELSE Append(h[n - 1], path[n])
  <2>3. \A n \in 0 .. j - 1 : h[n] = r(n)
    <3> SUFFICES ASSUME NEW n \in 0 .. j - 1 PROVE h[n] = r(n)
      OBVIOUS
    <3>1. g[n] = IF n = 0 THEN <<>>
                 ELSE IF path[n] = "/" THEN g[n - 1]
                 ELSE Append(g[n - 1], path[n])
      BY <2>2, <2>1 DEF Splits
    <3>2. h[n] = g[n] /\ (n # 0 => h[n - 1] = g[n - 1])
      BY <1>1
    <3> HIDE DEF h
    <3> QED BY <3>1, <3>2
  <2>4. h[j] = r(j)
    BY <1>1, <1>3
  <2>5. h = [n \in 0 .. j |-> r(n)]
    <3>1. h = [n \in 0 .. j |-> h[n]]
      OBVIOUS
    <3> HIDE DEF h, r
    <3>2. \A n \in 0 .. j : h[n] = r(n)
      BY <2>3, <2>4
    <3> QED BY <3>1, <3>2
  <2>6. Splits(h, path, j)
    <3> HIDE DEF h
    <3> QED BY <2>5 DEF Splits
  <2> QED BY <1>1, <2>6
<1> QED BY <1>2, <1>3

\* SplitPath is its last value.
LEMMA SplitUnfolds ==
    ASSUME NEW path, NEW k \in Nat, Len(path) = k
    PROVE  \E g :
             /\ SplitPath(path) = g[k]
             /\ g[0] = <<>>
             /\ \A n \in 1 .. k :
                    g[n] = IF path[n] = "/" THEN g[n - 1]
                           ELSE Append(g[n - 1], path[n])
<1>1. \E g : Splits(g, path, k)
  BY SplitExists
<1> DEFINE g == CHOOSE f : Splits(f, path, k)
<1>2. Splits(g, path, k)
  BY <1>1
<1>3. SplitPath(path) = g[k]
  BY DEF SplitPath, Splits
<1> HIDE DEF g
<1>4. g[0] = <<>>
  BY <1>2 DEF Splits
<1>5. \A n \in 1 .. k : g[n] = IF path[n] = "/" THEN g[n - 1]
                               ELSE Append(g[n - 1], path[n])
  <2> SUFFICES ASSUME NEW n \in 1 .. k
               PROVE  g[n] = IF path[n] = "/" THEN g[n - 1]
                             ELSE Append(g[n - 1], path[n])
    OBVIOUS
  <2>1. n \in 0 .. k /\ n # 0
    OBVIOUS
  <2> QED BY <1>2, <2>1 DEF Splits
<1> QED BY <1>3, <1>4, <1>5

\* The pieces are strings without slashes.
LEMMA SplitType ==
    ASSUME NEW S, NEW path \in Seq(S)
    PROVE  SplitPath(path) \in Seq(S \ {"/"})
<1>1. PICK g :
         /\ SplitPath(path) = g[Len(path)]
         /\ g[0] = <<>>
         /\ \A j \in 1 .. Len(path) :
                g[j] = IF path[j] = "/" THEN g[j - 1]
                       ELSE Append(g[j - 1], path[j])
  BY SplitUnfolds
<1> DEFINE Bad == {n \in 0 .. Len(path) : g[n] \notin Seq(S \ {"/"})}
<1>2. Bad = {}
  <2> SUFFICES ASSUME Bad # {} PROVE FALSE
    OBVIOUS
  <2>0. Bad \in SUBSET Nat
    OBVIOUS
  <2>1. PICK n \in Bad : \A i \in Bad : n <= i
    BY <2>0, LeastNat
  <2>2. n # 0
    <3>1. <<>> \in Seq(S \ {"/"})
      OBVIOUS
    <3> QED BY <1>1, <2>1, <3>1
  <2>3. n - 1 \in 0 .. Len(path) /\ n - 1 \notin Bad
    BY <2>1, <2>2
  <2>4. g[n - 1] \in Seq(S \ {"/"}) /\ path[n] \in S
    BY <2>1, <2>2, <2>3
  <2>5. g[n] = IF path[n] = "/" THEN g[n - 1] ELSE Append(g[n - 1], path[n])
    BY <1>1, <2>1, <2>2
  <2>6. g[n] \in Seq(S \ {"/"})
    <3> HIDE DEF Bad
    <3> QED BY <2>4, <2>5
  <2> QED BY <2>1, <2>6
<1> QED BY <1>1, <1>2

\* What a path gives, token by token.
LEMMA SplitEmpty == SplitPath(<<>>) = <<>>
<1>1. \E g : SplitPath(<<>>) = g[0] /\ g[0] = <<>>
  BY SplitUnfolds
<1> QED BY <1>1

LEMMA SplitAppend ==
    ASSUME NEW S, NEW path \in Seq(S), NEW token \in S
    PROVE  SplitPath(Append(path, token))
             = IF token = "/" THEN SplitPath(path)
               ELSE Append(SplitPath(path), token)
<1> DEFINE longer == Append(path, token)
           n == Len(path)
<1>1. Len(longer) = n + 1 /\ longer[n + 1] = token /\ n \in Nat
      /\ \A i \in 1 .. n : longer[i] = path[i]
  BY AppendProperties
<1>2. PICK g :
         /\ SplitPath(path) = g[n]
         /\ g[0] = <<>>
         /\ \A j \in 1 .. n :
                g[j] = IF path[j] = "/" THEN g[j - 1]
                       ELSE Append(g[j - 1], path[j])
  BY SplitUnfolds
<1>3. PICK h :
         /\ SplitPath(longer) = h[(n + 1)]
         /\ h[0] = <<>>
         /\ \A j \in 1 .. (n + 1) :
                h[j] = IF longer[j] = "/" THEN h[j - 1]
                       ELSE Append(h[j - 1], longer[j])
  <2> HIDE DEF longer, n
  <2> QED BY <1>1, SplitUnfolds
<1> DEFINE Bad == {i \in 0 .. n : g[i] # h[i]}
<1>4. Bad = {}
  <2> SUFFICES ASSUME Bad # {} PROVE FALSE
    OBVIOUS
  <2>1. Bad \in SUBSET Nat
    OBVIOUS
  <2>2. PICK i \in Bad : \A j \in Bad : i <= j
    BY <2>1, LeastNat
  <2>3. i # 0
    BY <1>1, <1>2, <1>3, <2>2
  <2>4. i - 1 \in 0 .. n /\ i - 1 \notin Bad
    BY <1>1, <2>2, <2>3
  <2>5. g[i - 1] = h[i - 1] /\ longer[i] = path[i]
    BY <1>1, <2>2, <2>3, <2>4
  <2>6. g[i] = IF path[i] = "/" THEN g[i - 1] ELSE Append(g[i - 1], path[i])
    BY <1>1, <1>2, <2>2, <2>3
  <2>7. h[i] = IF longer[i] = "/" THEN h[i - 1] ELSE Append(h[i - 1], longer[i])
    <3> HIDE DEF longer
    <3> QED BY <1>1, <1>3, <2>2, <2>3
  <2> QED BY <2>2, <2>5, <2>6, <2>7
<1>5. g[n] = h[n]
  BY <1>1, <1>4
<1>6. h[n + 1] = IF longer[n + 1] = "/" THEN h[n] ELSE Append(h[n], longer[n + 1])
  <2> HIDE DEF longer
  <2> QED BY <1>1, <1>3
<1> QED BY <1>1, <1>2, <1>3, <1>5, <1>6


\* A slash and a name are one more piece.
LEMMA SplitMore ==
    ASSUME NEW S, NEW path \in Seq(S), "/" \in S, NEW a \in S \ {"/"}
    PROVE  SplitPath(Append(Append(path, "/"), a)) = Append(SplitPath(path), a)
<1>1. SplitPath(Append(path, "/")) = SplitPath(path)
  BY SplitAppend
<1>2. Append(path, "/") \in Seq(S)
  BY AppendProperties
<1> QED BY <1>1, <1>2, SplitAppend

\* A tuple with one more component.
LEMMA IsAppend ==
    ASSUME NEW S, NEW seq \in Seq(S), NEW t \in Seq(S), Len(t) = Len(seq) + 1,
           \A i \in 1 .. Len(seq) : t[i] = seq[i]
    PROVE  Append(seq, t[Len(t)]) = t
<1> DEFINE longer == Append(seq, t[Len(t)])
<1>1. t[Len(t)] \in S
  OBVIOUS
<1>2. longer \in Seq(S) /\ Len(longer) = Len(t)
  BY <1>1, AppendProperties
<1>3. \A i \in 1 .. Len(longer) : longer[i] = t[i]
  BY <1>1, <1>2, AppendProperties
<1> HIDE DEF longer
<1>4. longer = t
  BY <1>2, <1>3, SeqEqual
<1> QED BY <1>4 DEF longer

\* The patterns of the table.
LEMMA SplitPatterns ==
    ASSUME NEW a, NEW b, NEW c, NEW d, "/" \notin {a, b, c, d}
    PROVE  /\ SplitPath(<<"/", a, "/", b>>) = <<a, b>>
           /\ SplitPath(<<"/", a, "/", b, "/", c>>) = <<a, b, c>>
           /\ SplitPath(<<"/", a, "/", b, "/", c, "/", d>>) = <<a, b, c, d>>
<1> DEFINE S == {"/", a, b, c, d}
<1>0. "/" \in S /\ {a, b, c, d} \subseteq S \ {"/"}
  OBVIOUS
<1> HIDE DEF S
<1>1. SplitPath(<<"/", a>>) = <<a>>
  <2>1. <<"/", a>> = Append(Append(<<>>, "/"), a)
    OBVIOUS
  <2>2. SplitPath(<<"/", a>>) = Append(SplitPath(<<>>), a)
    BY <1>0, <2>1, SplitMore, EmptySeq
  <2>3. Append(<<>>, a) = <<a>>
    OBVIOUS
  <2> QED BY <2>2, <2>3, SplitEmpty
<1>2. SplitPath(<<"/", a, "/", b>>) = <<a, b>>
  <2>1. <<"/", a>> \in Seq(S)
    BY <1>0
  <2>2. <<"/", a, "/", b>> = Append(Append(<<"/", a>>, "/"), b)
    OBVIOUS
  <2>3. SplitPath(<<"/", a, "/", b>>) = Append(SplitPath(<<"/", a>>), b)
    BY <1>0, <2>1, <2>2, SplitMore
  <2>4. Append(<<a>>, b) = <<a, b>>
    <3> DEFINE t == <<a, b>>
    <3>1. <<a>> \in Seq(S) /\ t \in Seq(S)
      BY <1>0
    <3>2. Len(<<a>>) = 1 /\ Len(t) = 2 /\ t[2] = b
          /\ \A i \in 1 .. 1 : t[i] = <<a>>[i]
      OBVIOUS
    <3> HIDE DEF t
    <3>3. Append(<<a>>, t[Len(t)]) = t
      BY <3>1, <3>2, IsAppend
    <3> QED BY <3>2, <3>3 DEF t
  <2> QED BY <1>1, <2>3, <2>4
<1>3. SplitPath(<<"/", a, "/", b, "/", c>>) = <<a, b, c>>
  <2>1. <<"/", a, "/", b>> \in Seq(S)
    BY <1>0
  <2>2. <<"/", a, "/", b, "/", c>> = Append(Append(<<"/", a, "/", b>>, "/"), c)
    OBVIOUS
  <2>3. SplitPath(<<"/", a, "/", b, "/", c>>) = Append(SplitPath(<<"/", a, "/", b>>), c)
    BY <1>0, <2>1, <2>2, SplitMore
  <2>4. Append(<<a, b>>, c) = <<a, b, c>>
    <3> DEFINE t == <<a, b, c>>
    <3>1. <<a, b>> \in Seq(S) /\ t \in Seq(S)
      BY <1>0
    <3>2. Len(<<a, b>>) = 2 /\ Len(t) = 3 /\ t[3] = c
          /\ \A i \in 1 .. 2 : t[i] = <<a, b>>[i]
      OBVIOUS
    <3> HIDE DEF t
    <3>3. Append(<<a, b>>, t[Len(t)]) = t
      BY <3>1, <3>2, IsAppend
    <3> QED BY <3>2, <3>3 DEF t
  <2> QED BY <1>2, <2>3, <2>4
<1>4. SplitPath(<<"/", a, "/", b, "/", c, "/", d>>) = <<a, b, c, d>>
  <2>1. <<"/", a, "/", b, "/", c>> \in Seq(S)
    BY <1>0
  <2>2. <<"/", a, "/", b, "/", c, "/", d>>
          = Append(Append(<<"/", a, "/", b, "/", c>>, "/"), d)
    OBVIOUS
  <2>3. SplitPath(<<"/", a, "/", b, "/", c, "/", d>>)
          = Append(SplitPath(<<"/", a, "/", b, "/", c>>), d)
    BY <1>0, <2>1, <2>2, SplitMore
  <2>4. Append(<<a, b, c>>, d) = <<a, b, c, d>>
    <3> DEFINE t == <<a, b, c, d>>
    <3>1. <<a, b, c>> \in Seq(S) /\ t \in Seq(S)
      BY <1>0
    <3>2. Len(<<a, b, c>>) = 3 /\ Len(t) = 4 /\ t[4] = d
          /\ \A i \in 1 .. 3 : t[i] = <<a, b, c>>[i]
      OBVIOUS
    <3> HIDE DEF t
    <3>3. Append(<<a, b, c>>, t[Len(t)]) = t
      BY <3>1, <3>2, IsAppend
    <3> QED BY <3>2, <3>3 DEF t
  <2> QED BY <1>3, <2>3, <2>4
<1> QED BY <1>2, <1>3, <1>4
\* ... as the table needs them.
LEMMA SplitTwo ==
    ASSUME NEW a, NEW b, "/" # a, "/" # b
    PROVE  SplitPath(<<"/", a, "/", b>>) = <<a, b>>
<1>1. "/" \notin {a, b}
  OBVIOUS
<1> QED BY <1>1, SplitPatterns

LEMMA SplitThree ==
    ASSUME NEW a, NEW b, NEW c, "/" # a, "/" # b, "/" # c
    PROVE  SplitPath(<<"/", a, "/", b, "/", c>>) = <<a, b, c>>
<1>1. "/" \notin {a, b, c}
  OBVIOUS
<1> QED BY <1>1, SplitPatterns

LEMMA SplitFour ==
    ASSUME NEW a, NEW b, NEW c, NEW d, "/" # a, "/" # b, "/" # c, "/" # d
    PROVE  SplitPath(<<"/", a, "/", b, "/", c, "/", d>>) = <<a, b, c, d>>
<1>1. "/" \notin {a, b, c, d}
  OBVIOUS
<1> QED BY <1>1, SplitPatterns

-----------------------------------------------------------------------------
(* The table                                                               *)

Entry(method, segments, handler) ==
    [method |-> method, segments |-> segments, handler |-> handler]

\* What Server::Server has registered.
LEMMA Table ==
    /\ Routes[1] = Entry("POST", <<"lobby", "create">>, "CreateLobby")
    /\ Routes[2] = Entry("GET", <<"lobby", "fetch", ":LobbyID">>, "FetchLobby")
    /\ Routes[3] = Entry("POST", <<"session", "login">>, "Login")
    /\ Routes[4] = Entry("GET", <<"session", "fetch", ":SessionID">>, "FetchSession")
    /\ Routes[5] = Entry("POST", <<"session", "logout">>, "Logout")
    /\ Routes[6] = Entry("POST", <<"lobby", "join", ":LobbyID">>, "JoinLobby")
    /\ Routes[7] = Entry("POST", <<"lobby", "leave", ":LobbyID">>, "LeaveLobby")
    /\ Routes[8] = Entry("GET", <<"lobby", "list">>, "ListLobbies")
    /\ Routes[9] = Entry("POST", <<"lobby", "destroy", ":LobbyID">>, "DestroyLobby")
    /\ Routes[10] = Entry("POST", <<"lobby", "kick", ":LobbyID", ":TargetUsername">>, "KickPlayer")
    /\ DOMAIN Routes = 1 .. 10
<1>1. Routes[1] = Entry("POST", <<"lobby", "create">>, "CreateLobby")
  <2>1. SplitPath(<<"/", "lobby", "/", "create">>) = <<"lobby", "create">>
    BY SplitTwo, Zenon
  <2>2. Routes[1] = Entry("POST", SplitPath(<<"/", "lobby", "/", "create">>), "CreateLobby")
    BY DEF Routes, RegisterRoute, Entry
  <2> QED BY <2>1, <2>2
<1>2. Routes[2] = Entry("GET", <<"lobby", "fetch", ":LobbyID">>, "FetchLobby")
  <2>1. SplitPath(<<"/", "lobby", "/", "fetch", "/", ":LobbyID">>) = <<"lobby", "fetch", ":LobbyID">>
    BY SplitThree, Zenon
  <2>2. Routes[2] = Entry("GET", SplitPath(<<"/", "lobby", "/", "fetch", "/", ":LobbyID">>), "FetchLobby")
    BY DEF Routes, RegisterRoute, Entry
  <2> QED BY <2>1, <2>2
<1>3. Routes[3] = Entry("POST", <<"session", "login">>, "Login")
  <2>1. SplitPath(<<"/", "session", "/", "login">>) = <<"session", "login">>
    BY SplitTwo, Zenon
  <2>2. Routes[3] = Entry("POST", SplitPath(<<"/", "session", "/", "login">>), "Login")
    BY DEF Routes, RegisterRoute, Entry
  <2> QED BY <2>1, <2>2
<1>4. Routes[4] = Entry("GET", <<"session", "fetch", ":SessionID">>, "FetchSession")
  <2>1. SplitPath(<<"/", "session", "/", "fetch", "/", ":SessionID">>) = <<"session", "fetch", ":SessionID">>
    BY SplitThree, Zenon
  <2>2. Routes[4] = Entry("GET", SplitPath(<<"/", "session", "/", "fetch", "/", ":SessionID">>), "FetchSession")
    BY DEF Routes, RegisterRoute, Entry
  <2> QED BY <2>1, <2>2
<1>5. Routes[5] = Entry("POST", <<"session", "logout">>, "Logout")
  <2>1. SplitPath(<<"/", "session", "/", "logout">>) = <<"session", "logout">>
    BY SplitTwo, Zenon
  <2>2. Routes[5] = Entry("POST", SplitPath(<<"/", "session", "/", "logout">>), "Logout")
    BY DEF Routes, RegisterRoute, Entry
  <2> QED BY <2>1, <2>2
<1>6. Routes[6] = Entry("POST", <<"lobby", "join", ":LobbyID">>, "JoinLobby")
  <2>1. SplitPath(<<"/", "lobby", "/", "join", "/", ":LobbyID">>) = <<"lobby", "join", ":LobbyID">>
    BY SplitThree, Zenon
  <2>2. Routes[6] = Entry("POST", SplitPath(<<"/", "lobby", "/", "join", "/", ":LobbyID">>), "JoinLobby")
    BY DEF Routes, RegisterRoute, Entry
  <2> QED BY <2>1, <2>2
<1>7. Routes[7] = Entry("POST", <<"lobby", "leave", ":LobbyID">>, "LeaveLobby")
  <2>1. SplitPath(<<"/", "lobby", "/", "leave", "/", ":LobbyID">>) = <<"lobby", "leave", ":LobbyID">>
    BY SplitThree, Zenon
  <2>2. Routes[7] = Entry("POST", SplitPath(<<"/", "lobby", "/", "leave", "/", ":LobbyID">>), "LeaveLobby")
    BY DEF Routes, RegisterRoute, Entry
  <2> QED BY <2>1, <2>2
<1>8. Routes[8] = Entry("GET", <<"lobby", "list">>, "ListLobbies")
  <2>1. SplitPath(<<"/", "lobby", "/", "list">>) = <<"lobby", "list">>
    BY SplitTwo, Zenon
  <2>2. Routes[8] = Entry("GET", SplitPath(<<"/", "lobby", "/", "list">>), "ListLobbies")
    BY DEF Routes, RegisterRoute, Entry
  <2> QED BY <2>1, <2>2
<1>9. Routes[9] = Entry("POST", <<"lobby", "destroy", ":LobbyID">>, "DestroyLobby")
  <2>1. SplitPath(<<"/", "lobby", "/", "destroy", "/", ":LobbyID">>) = <<"lobby", "destroy", ":LobbyID">>
    BY SplitThree, Zenon
  <2>2. Routes[9] = Entry("POST", SplitPath(<<"/", "lobby", "/", "destroy", "/", ":LobbyID">>), "DestroyLobby")
    BY DEF Routes, RegisterRoute, Entry
  <2> QED BY <2>1, <2>2
<1>10. Routes[10] = Entry("POST", <<"lobby", "kick", ":LobbyID", ":TargetUsername">>, "KickPlayer")
  <2>1. SplitPath(<<"/", "lobby", "/", "kick", "/", ":LobbyID", "/", ":TargetUsername">>) = <<"lobby", "kick", ":LobbyID", ":TargetUsername">>
    BY SplitFour, Zenon
  <2>2. Routes[10] = Entry("POST", SplitPath(<<"/", "lobby", "/", "kick", "/", ":LobbyID", "/", ":TargetUsername">>), "KickPlayer")
    BY DEF Routes, RegisterRoute, Entry
  <2> QED BY <2>1, <2>2
<1>11. DOMAIN Routes = 1 .. 10
  BY DEF Routes, RegisterRoute
<1> QED
  BY <1>1, <1>2, <1>3, <1>4, <1>5, <1>6, <1>7, <1>8, <1>9, <1>10, <1>11

\* What an entry asks of its segments.
Matches(pattern, segments) ==
    /\ Len(pattern) = Len(segments)
    /\ \A i \in DOMAIN pattern :
           IsParameter(pattern[i]) \/ pattern[i] = segments[i]

\* No parameter occurs twice in the pattern.
Linear(pattern) ==
    \A i, j \in DOMAIN pattern :
        IsParameter(pattern[i]) /\ pattern[i] = pattern[j] => i = j

\* Comparing one segment after the other finds exactly the instances of the
\* pattern, whatever the pattern, if no parameter occurs twice in it.
LEMMA MatchesAreInstances ==
    ASSUME NEW pattern, DOMAIN pattern = 1 .. Len(pattern), Len(pattern) \in Nat,
           NEW S, NEW segments \in Seq(S), Linear(pattern)
    PROVE  Matches(pattern, segments) <=> Fits(pattern, segments)
<1> DEFINE used == {piece \in Parameters : \E i \in DOMAIN pattern : pattern[i] = piece}
           range == {segments[i] : i \in DOMAIN segments}
<1>1. ASSUME Matches(pattern, segments)
      PROVE  Fits(pattern, segments)
  <2> DEFINE at(piece) == CHOOSE i \in DOMAIN pattern : pattern[i] = piece
             values == [piece \in used |-> segments[at(piece)]]
  <2>1. DOMAIN pattern = DOMAIN segments
    BY <1>1 DEF Matches
  <2>2. \A piece \in used : at(piece) \in DOMAIN pattern /\ pattern[at(piece)] = piece
    OBVIOUS
  <2>3. values \in [used -> range]
    BY <2>1, <2>2
  <2>4. ASSUME NEW i \in DOMAIN pattern, IsParameter(pattern[i])
        PROVE  pattern[i] \in used /\ at(pattern[i]) = i
    <3>1. pattern[i] \in used
      BY <2>4 DEF IsParameter
    <3>2. at(pattern[i]) \in DOMAIN pattern /\ pattern[at(pattern[i])] = pattern[i]
      BY <2>2, <3>1
    <3> HIDE DEF at
    <3> QED BY <2>4, <3>1, <3>2 DEF Linear
  <2>5. ASSUME NEW i \in DOMAIN pattern
        PROVE  segments[i] = Instance(pattern, values)[i]
    <3>1. CASE IsParameter(pattern[i])
      <4>1. values[pattern[i]] = segments[i]
        BY <2>4, <3>1
      <4> HIDE DEF values
      <4> QED BY <3>1, <4>1 DEF Instance
    <3>2. CASE ~IsParameter(pattern[i])
      BY <1>1, <3>2 DEF Matches, Instance
    <3> QED BY <3>1, <3>2
  <2>6. segments = [i \in DOMAIN pattern |-> segments[i]]
    BY <2>1
  <2> HIDE DEF values
  <2>7. segments = Instance(pattern, values)
    BY <2>5, <2>6 DEF Instance
  <2> QED BY <2>3, <2>7 DEF Fits
<1>2. ASSUME Fits(pattern, segments)
      PROVE  Matches(pattern, segments)
  <2>1. PICK values : segments = Instance(pattern, values)
    BY <1>2 DEF Fits
  <2>2. DOMAIN segments = DOMAIN pattern
    BY <2>1 DEF Instance
  <2>3. Len(pattern) = Len(segments)
    <3>1. DOMAIN segments = 1 .. Len(segments) /\ DOMAIN pattern = 1 .. Len(pattern)
          /\ Len(segments) \in Nat /\ Len(pattern) \in Nat
      OBVIOUS
    <3> QED BY <2>2, <3>1
  <2>4. \A i \in DOMAIN pattern : ~IsParameter(pattern[i]) => segments[i] = pattern[i]
    BY <2>1 DEF Instance
  <2> QED BY <2>3, <2>4 DEF Matches
<1> QED BY <1>1, <1>2

\* TryMatch accepts a request for an entry exactly if the methods agree and some
\* values for the parameters turn the pattern into the segments.
THEOREM TryMatchRight ==
    ASSUME NEW entry, NEW method, NEW S, NEW segments \in Seq(S),
           Len(entry.segments) \in Nat,
           DOMAIN entry.segments = 1 .. Len(entry.segments),
           Linear(entry.segments)
    PROVE  TryMatch(entry, method, segments)
             <=> entry.method = method /\ Fits(entry.segments, segments)
<1>1. Matches(entry.segments, segments) <=> Fits(entry.segments, segments)
  BY MatchesAreInstances
<1> QED BY <1>1 DEF TryMatch, Matches

\* The patterns of the table are such patterns.
LEMMA TableLinear ==
    ASSUME NEW i \in DOMAIN Routes
    PROVE  /\ Len(Routes[i].segments) \in Nat
           /\ DOMAIN Routes[i].segments = 1 .. Len(Routes[i].segments)
           /\ Linear(Routes[i].segments)
           /\ Routes[i].method \in {"GET", "POST"}
           /\ Routes[i].handler \notin Errors
<1> USE DEF Entry, Linear, IsParameter, Parameters, Errors
<1>1. i \in 1 .. 10
  BY Table
<1>2. CASE i = 1
  BY <1>2, Table
<1>3. CASE i = 2
  BY <1>3, Table
<1>4. CASE i = 3
  BY <1>4, Table
<1>5. CASE i = 4
  BY <1>5, Table
<1>6. CASE i = 5
  BY <1>6, Table
<1>7. CASE i = 6
  BY <1>7, Table
<1>8. CASE i = 7
  BY <1>8, Table
<1>9. CASE i = 8
  BY <1>9, Table
<1>10. CASE i = 9
  BY <1>10, Table
<1>11. CASE i = 10
  BY <1>11, Table
<1> QED
  BY <1>1, <1>2, <1>3, <1>4, <1>5, <1>6, <1>7, <1>8, <1>9, <1>10, <1>11

\* The first two segments of a request tell which entry it can match.
LEMMA Keyed ==
    ASSUME NEW i \in DOMAIN Routes, NEW segments,
           Matches(Routes[i].segments, segments)
    PROVE
      /\ i = 1 => segments[1] = "lobby" /\ segments[2] = "create"
      /\ i = 2 => segments[1] = "lobby" /\ segments[2] = "fetch"
      /\ i = 3 => segments[1] = "session" /\ segments[2] = "login"
      /\ i = 4 => segments[1] = "session" /\ segments[2] = "fetch"
      /\ i = 5 => segments[1] = "session" /\ segments[2] = "logout"
      /\ i = 6 => segments[1] = "lobby" /\ segments[2] = "join"
      /\ i = 7 => segments[1] = "lobby" /\ segments[2] = "leave"
      /\ i = 8 => segments[1] = "lobby" /\ segments[2] = "list"
      /\ i = 9 => segments[1] = "lobby" /\ segments[2] = "destroy"
      /\ i = 10 => segments[1] = "lobby" /\ segments[2] = "kick"
<1> USE DEF Entry, Matches, IsParameter, Parameters
<1>1. CASE i = 1
  BY <1>1, Table
<1>2. CASE i = 2
  BY <1>2, Table
<1>3. CASE i = 3
  BY <1>3, Table
<1>4. CASE i = 4
  BY <1>4, Table
<1>5. CASE i = 5
  BY <1>5, Table
<1>6. CASE i = 6
  BY <1>6, Table
<1>7. CASE i = 7
  BY <1>7, Table
<1>8. CASE i = 8
  BY <1>8, Table
<1>9. CASE i = 9
  BY <1>9, Table
<1>10. CASE i = 10
  BY <1>10, Table
<1> QED
  BY <1>1, <1>2, <1>3, <1>4, <1>5, <1>6, <1>7, <1>8, <1>9, <1>10, Table

\* No request matches two entries.
LEMMA NoClash ==
    ASSUME NEW i \in DOMAIN Routes, NEW j \in DOMAIN Routes, NEW segments,
           Matches(Routes[i].segments, segments),
           Matches(Routes[j].segments, segments)
    PROVE  i = j
<1>1. i \in 1 .. 10 /\ j \in 1 .. 10
  BY Table
<1> QED BY <1>1, Keyed

-----------------------------------------------------------------------------
(* Routing                                                                 *)

\* The first of some naturals.
LEMMA FirstIs ==
    ASSUME NEW M \in SUBSET Nat, M # {}
    PROVE  LET first == CHOOSE i \in M : \A j \in M : i <= j
           IN  first \in M /\ \A j \in M : first <= j
<1>1. \E i \in M : \A j \in M : i <= j
  BY LeastNat
<1> QED BY <1>1

\* Without the query, a path is still a path.
LEMMA StripType ==
    ASSUME NEW S, NEW path \in Seq(S)
    PROVE  StripQuery(path) \in Seq(S)
<1>1. CASE \E i \in DOMAIN path : path[i] = "?"
  <2> DEFINE end == CHOOSE i \in DOMAIN path :
                        /\ path[i] = "?"
                        /\ \A j \in 1 .. i - 1 : path[j] # "?"
             M == {i \in DOMAIN path : path[i] = "?"}
  <2>1. M \in SUBSET Nat /\ M # {}
    BY <1>1
  <2>2. PICK i \in M : \A j \in M : i <= j
    BY <2>1, LeastNat
  <2>3. \A j \in 1 .. i - 1 : path[j] # "?"
    BY <2>2
  <2>4. end \in DOMAIN path
    BY <2>2, <2>3
  <2> HIDE DEF end
  <2>5. SubSeq(path, 1, end - 1) \in Seq(S)
    <3>1. end \in 1 .. Len(path)
      BY <2>4
    <3>2. \A j \in 1 .. end - 1 : path[j] \in S
      BY <3>1
    <3> QED BY <3>1, <3>2, SubSeqProperties
  <2> QED BY <1>1, <2>5 DEF StripQuery, end
<1>2. CASE ~ \E i \in DOMAIN path : path[i] = "?"
  BY <1>2 DEF StripQuery
<1> QED BY <1>1, <1>2

\* For every method and path, the router answers with the one handler whose
\* entry the request is an instance of, and with an error if there is none:
\* the order in which Server::Server registers its routes does not matter.
THEOREM HandledRight ==
    ASSUME NEW method, NEW S, NEW path \in Seq(S)
    PROVE  LET segments == SplitPath(StripQuery(path))
               fitting == {i \in DOMAIN Routes :
                              /\ Routes[i].method = method
                              /\ Fits(Routes[i].segments, segments)}
               endpoint == HandleRequest(method, path)
           IN  IF endpoint \in Errors
                 THEN fitting = {}
                 ELSE {Routes[i].handler : i \in fitting} = {endpoint}
<1> DEFINE segments == SplitPath(StripQuery(path))
           fitting == {i \in DOMAIN Routes :
                          /\ Routes[i].method = method
                          /\ Fits(Routes[i].segments, segments)}
           matching == {i \in DOMAIN Routes : TryMatch(Routes[i], method, segments)}
           first == CHOOSE i \in matching : \A j \in matching : i <= j
           endpoint == HandleRequest(method, path)
<1>1. segments \in Seq(S \ {"/"})
  BY StripType, SplitType
<1>2. endpoint = IF method \notin {"GET", "POST"} THEN "MethodNotAllowed"
                 ELSE IF matching = {} THEN "NotFound"
                 ELSE Routes[first].handler
  BY DEF HandleRequest
<1> HIDE DEF segments, endpoint
<1>3. \A i \in DOMAIN Routes :
          TryMatch(Routes[i], method, segments)
            <=> Routes[i].method = method /\ Fits(Routes[i].segments, segments)
  BY <1>1, TableLinear, TryMatchRight
<1>4. \A i \in DOMAIN Routes :
          TryMatch(Routes[i], method, segments)
            <=> Routes[i].method = method /\ Matches(Routes[i].segments, segments)
  BY DEF TryMatch, Matches
<1>5. matching = fitting
  BY <1>3
<1>6. \A i, j \in fitting : i = j
  BY <1>3, <1>4, NoClash
<1>7. CASE method \notin {"GET", "POST"}
  <2>1. fitting = {}
    BY <1>7, TableLinear
  <2> QED BY <1>2, <1>7, <2>1 DEF Errors, endpoint, segments
<1>8. CASE method \in {"GET", "POST"} /\ matching = {}
  BY <1>2, <1>5, <1>8 DEF Errors, endpoint, segments
<1>9. CASE method \in {"GET", "POST"} /\ matching # {}
  <2>1. matching \in SUBSET Nat
    BY Table
  <2>2. first \in matching
    BY <1>9, <2>1, FirstIs
  <2>3. endpoint = Routes[first].handler
    BY <1>2, <1>9
  <2>4. first \in fitting
    BY <1>5, <2>2
  <2> HIDE DEF first, matching, fitting
  <2>5. {Routes[i].handler : i \in fitting} = {endpoint}
    BY <1>6, <2>3, <2>4
  <2>6. endpoint \notin Errors
    BY <2>2, <2>3, TableLinear DEF matching
  <2> QED BY <2>5, <2>6 DEF endpoint, segments, fitting
<1> QED BY <1>7, <1>8, <1>9

-----------------------------------------------------------------------------
(* What does not matter in a path                                          *)

\* The last token of a path that has one.
LEMMA LastToken ==
    ASSUME NEW S, NEW q \in Seq(S), q # <<>>
    PROVE  \E f \in Seq(S), x \in S : q = Append(f, x) /\ Len(q) = Len(f) + 1
<1> DEFINE n == Len(q)
           f == SubSeq(q, 1, n - 1)
<1>1. n \in Nat \ {0} /\ \A i \in 1 .. n : q[i] \in S
  BY EmptySeq
<1>2. /\ f \in Seq(S)
      /\ Len(f) = n - 1
      /\ \A i \in 1 .. n - 1 : f[i] = q[i]
  <2>1. \A i \in 1 .. n - 1 : q[i] \in S
    BY <1>1
  <2> HIDE DEF n
  <2>2. /\ SubSeq(q, 1, n - 1) \in Seq(S)
        /\ Len(SubSeq(q, 1, n - 1)) = IF 1 <= n - 1 THEN n - 1 - 1 + 1 ELSE 0
        /\ \A i \in 1 .. n - 1 - 1 + 1 : SubSeq(q, 1, n - 1)[i] = q[1 + i - 1]
    BY <1>1, <2>1, SubSeqProperties
  <2> HIDE DEF f
  <2>3. Len(f) = n - 1
    BY <1>1, <2>2 DEF f
  <2>4. ASSUME NEW i \in 1 .. n - 1 PROVE f[i] = q[i]
    <3>1. i \in 1 .. n - 1 - 1 + 1 /\ 1 + i - 1 = i
      BY <1>1
    <3> QED BY <2>2, <3>1 DEF f
  <2> QED BY <2>2, <2>3, <2>4 DEF f
<1> HIDE DEF f
<1>3. Append(f, q[Len(q)]) = q
  BY <1>1, <1>2, IsAppend
<1> QED BY <1>1, <1>2, <1>3

\* A path is split part by part: one token more, ...
LEMMA SplitConcatStep ==
    ASSUME NEW S, NEW p \in Seq(S), NEW f \in Seq(S), NEW x \in S,
           SplitPath(p \o f) = SplitPath(p) \o SplitPath(f)
    PROVE  SplitPath(p \o Append(f, x)) = SplitPath(p) \o SplitPath(Append(f, x))
<1> DEFINE y == <<x>>
           P == SplitPath(p)
           F == SplitPath(f)
           T == S \ {"/"}
<1>1. p \o f \in Seq(S) /\ y \in Seq(S)
  BY ConcatProperties
<1>2. Append(f, x) = f \o y /\ Append(p \o f, x) = (p \o f) \o y
  BY <1>1, AppendIsConcat
<1>3. P \in Seq(T) /\ F \in Seq(T)
  BY SplitType
<1>4. SplitPath(Append(f, x)) = IF x = "/" THEN F ELSE Append(F, x)
  BY SplitAppend
<1>5. SplitPath(Append(p \o f, x)) = IF x = "/" THEN P \o F ELSE Append(P \o F, x)
  BY <1>1, SplitAppend
<1>6. ASSUME x # "/"
      PROVE  /\ y \in Seq(T)
             /\ Append(F, x) = F \o y
             /\ Append(P \o F, x) = (P \o F) \o y
  <2>1. x \in T /\ P \o F \in Seq(T)
    BY <1>3, <1>6, ConcatProperties
  <2>2. y \in Seq(T)
    BY <2>1
  <2> HIDE DEF P, F, T
  <2> QED BY <1>3, <2>1, <2>2, AppendIsConcat
<1> HIDE DEF y, P, F, T
<1>7. (p \o f) \o y = p \o (f \o y)
  BY <1>1, ConcatAssociative
<1>8. ASSUME x # "/" PROVE (P \o F) \o y = P \o (F \o y)
  <2>1. P \in Seq(T) /\ F \in Seq(T) /\ y \in Seq(T)
    BY <1>3, <1>6, <1>8
  <2> QED BY <2>1, ConcatAssociative
<1>9. CASE x = "/"
  BY <1>2, <1>4, <1>5, <1>7, <1>9 DEF P, F
<1>10. CASE x # "/"
  BY <1>2, <1>4, <1>5, <1>6, <1>7, <1>8, <1>10 DEF P, F
<1> QED BY <1>9, <1>10

\* ... and any number of tokens more.
LEMMA SplitConcat ==
    ASSUME NEW S, NEW p \in Seq(S), NEW q \in Seq(S)
    PROVE  SplitPath(p \o q) = SplitPath(p) \o SplitPath(q)
<1> DEFINE Splits2(r) == SplitPath(p \o r) = SplitPath(p) \o SplitPath(r)
           Bad == {k \in Nat : \E r \in Seq(S) : Len(r) = k /\ ~Splits2(r)}
<1> SUFFICES ASSUME ~Splits2(q) PROVE FALSE
  OBVIOUS
<1>1. Bad \in SUBSET Nat /\ Bad # {}
  <2>1. Len(q) \in Nat
    OBVIOUS
  <2>2. Len(q) \in Bad
    BY <2>1
  <2> QED BY <2>2
<1>2. PICK k \in Bad : \A j \in Bad : k <= j
  BY <1>1, LeastNat
<1>3. PICK r \in Seq(S) : Len(r) = k /\ ~Splits2(r)
  BY <1>2
<1>4. r # <<>>
  <2>1. SplitPath(p) \in Seq(S \ {"/"})
    BY SplitType
  <2>2. p \o <<>> = p /\ SplitPath(p) \o <<>> = SplitPath(p)
    BY <2>1, ConcatEmptySeq
  <2>3. Splits2(<<>>)
    BY <2>2, SplitEmpty
  <2> QED BY <1>3, <2>3
<1>5. PICK f \in Seq(S), x \in S : r = Append(f, x) /\ Len(r) = Len(f) + 1
  BY <1>4, LastToken
<1>6. Splits2(f)
  <2>1. Len(f) \in Nat /\ Len(f) < k
    BY <1>3, <1>5
  <2>2. Len(f) \notin Bad
    BY <1>2, <2>1
  <2> QED BY <2>1, <2>2
<1> QED BY <1>3, <1>5, <1>6, SplitConcatStep

\* One more slash, anywhere in the path, leaves its pieces as they are.
LEMMA SlashVanishes ==
    ASSUME NEW S, "/" \in S, NEW p \in Seq(S), NEW q \in Seq(S)
    PROVE  SplitPath(Append(p, "/") \o q) = SplitPath(p \o q)
<1>1. Append(p, "/") \in Seq(S)
  BY AppendProperties
<1>2. SplitPath(Append(p, "/")) = SplitPath(p)
  BY SplitAppend
<1>3. SplitPath(Append(p, "/") \o q) = SplitPath(Append(p, "/")) \o SplitPath(q)
  BY <1>1, SplitConcat, Zenon
<1>4. SplitPath(p \o q) = SplitPath(p) \o SplitPath(q)
  BY SplitConcat, Zenon
<1> QED BY <1>2, <1>3, <1>4, Zenon

\* The router looks at nothing but the segments.
LEMMA AnswerBySegments ==
    ASSUME NEW method, NEW path, NEW other,
           SplitPath(StripQuery(path)) = SplitPath(StripQuery(other))
    PROVE  HandleRequest(method, path) = HandleRequest(method, other)
<1> DEFINE Answer(segments) ==
             LET matching == {i \in DOMAIN Routes : TryMatch(Routes[i], method, segments)}
             IN  IF method \notin {"GET", "POST"} THEN "MethodNotAllowed"
                 ELSE IF matching = {} THEN "NotFound"
                 ELSE Routes[CHOOSE i \in matching : \A j \in matching : i <= j].handler
<1>1. \A any : HandleRequest(method, any) = Answer(SplitPath(StripQuery(any)))
  BY DEF HandleRequest
<1> HIDE DEF Answer
<1> QED BY <1>1, Zenon

NoQuery(path) == \A i \in DOMAIN path : path[i] # "?"

\* Doubled, leading and trailing slashes never change the answer to a request.
THEOREM SlashesDoNotMatter ==
    ASSUME NEW method, NEW S, "/" \in S,
           NEW p \in Seq(S), NoQuery(p), NEW q \in Seq(S), NoQuery(q)
    PROVE  HandleRequest(method, Append(p, "/") \o q) = HandleRequest(method, p \o q)
<1>1. ASSUME NEW r \in Seq(S), NoQuery(r)
      PROVE  NoQuery(r \o q) /\ StripQuery(r \o q) = r \o q
  <2>1. /\ r \o q \in Seq(S)
        /\ Len(r \o q) = Len(r) + Len(q)
        /\ \A i \in 1 .. Len(r) + Len(q) :
               (r \o q)[i] = IF i <= Len(r) THEN r[i] ELSE q[i - Len(r)]
    BY ConcatProperties
  <2> DEFINE whole == r \o q
  <2> HIDE DEF whole
  <2>2. DOMAIN whole = 1 .. Len(r) + Len(q) /\ Len(r) \in Nat /\ Len(q) \in Nat
    BY <2>1 DEF whole
  <2>3. \A i \in DOMAIN whole : whole[i] # "?"
    <3> SUFFICES ASSUME NEW i \in DOMAIN whole PROVE whole[i] # "?"
      OBVIOUS
    <3>1. CASE i <= Len(r)
      <4>1. i \in DOMAIN r /\ whole[i] = r[i]
        BY <2>1, <2>2, <3>1 DEF whole
      <4> QED BY <1>1, <4>1 DEF NoQuery
    <3>2. CASE i > Len(r)
      <4>1. i - Len(r) \in DOMAIN q /\ whole[i] = q[i - Len(r)]
        BY <2>1, <2>2, <3>2 DEF whole
      <4> QED BY <4>1 DEF NoQuery
    <3> QED BY <2>2, <3>1, <3>2
  <2> QED BY <2>3 DEF NoQuery, StripQuery, whole
<1>2. Append(p, "/") \in Seq(S) /\ NoQuery(Append(p, "/"))
  <2>1. /\ Append(p, "/") \in Seq(S)
        /\ Len(Append(p, "/")) = Len(p) + 1
        /\ \A i \in 1 .. Len(p) : Append(p, "/")[i] = p[i]
        /\ Append(p, "/")[Len(p) + 1] = "/"
    BY AppendProperties
  <2> DEFINE longer == Append(p, "/")
  <2> HIDE DEF longer
  <2>2. \A i \in DOMAIN longer : i \in 1 .. Len(p) \/ i = Len(p) + 1
    BY <2>1 DEF longer
  <2>3. \A i \in DOMAIN longer : longer[i] # "?"
    BY <2>1, <2>2 DEF longer, NoQuery
  <2> QED BY <2>1, <2>3 DEF longer, NoQuery
<1>3. SplitPath(StripQuery(Append(p, "/") \o q)) = SplitPath(StripQuery(p \o q))
  BY <1>1, <1>2, SlashVanishes
<1> QED BY <1>3, AnswerBySegments

\* Nor does anything from the first question mark on.
THEOREM QueryDoesNotMatter ==
    ASSUME NEW method, NEW S, "?" \in S, NEW p \in Seq(S), NoQuery(p), NEW q \in Seq(S)
    PROVE  HandleRequest(method, Append(p, "?") \o q) = HandleRequest(method, p)
<1> DEFINE asked == Append(p, "?")
           whole == asked \o q
           n == Len(p)
<1>1. /\ asked \in Seq(S)
      /\ Len(asked) = n + 1
      /\ \A i \in 1 .. n : asked[i] = p[i]
      /\ asked[n + 1] = "?"
  BY AppendProperties
<1>2. n \in Nat /\ Len(q) \in Nat
  OBVIOUS
<1> HIDE DEF asked
<1>3. /\ whole \in Seq(S)
      /\ Len(whole) = Len(asked) + Len(q)
      /\ \A i \in 1 .. Len(asked) + Len(q) :
             whole[i] = IF i <= Len(asked) THEN asked[i] ELSE q[i - Len(asked)]
  BY <1>1, ConcatProperties
<1> HIDE DEF whole
<1>4. DOMAIN whole = 1 .. n + 1 + Len(q)
  BY <1>1, <1>3
<1>5. \A i \in 1 .. n : i \in DOMAIN whole /\ whole[i] = p[i] /\ whole[i] # "?"
  BY <1>1, <1>2, <1>3, <1>4 DEF NoQuery
<1>6. n + 1 \in DOMAIN whole /\ whole[n + 1] = "?"
  BY <1>1, <1>2, <1>3, <1>4
<1> DEFINE end == CHOOSE i \in DOMAIN whole :
                     /\ whole[i] = "?"
                     /\ \A j \in 1 .. i - 1 : whole[j] # "?"
<1>7. end = n + 1
  <2>1. /\ end \in DOMAIN whole /\ whole[end] = "?"
        /\ \A j \in 1 .. end - 1 : whole[j] # "?"
    <3>1. \A j \in 1 .. (n + 1) - 1 : whole[j] # "?"
      BY <1>2, <1>5
    <3> QED BY <1>6, <3>1
  <2> HIDE DEF end
  <2>2. end \notin 1 .. n
    BY <1>5, <2>1
  <2>3. ~(n + 1 < end)
    BY <1>2, <1>4, <1>6, <2>1
  <2> QED BY <1>2, <1>4, <2>1, <2>2, <2>3
<1>8. StripQuery(whole) = SubSeq(whole, 1, n)
  <2>1. StripQuery(whole) = SubSeq(whole, 1, end - 1)
    BY <1>6 DEF StripQuery
  <2> HIDE DEF end
  <2>2. end - 1 = n
    BY <1>2, <1>7
  <2> QED BY <2>1, <2>2
<1>9. SubSeq(whole, 1, n) = p
  <2>1. \A i \in 1 .. n : whole[i] \in S
    BY <1>3, <1>5
  <2>2. /\ SubSeq(whole, 1, n) \in Seq(S)
        /\ Len(SubSeq(whole, 1, n)) = IF 1 <= n THEN n - 1 + 1 ELSE 0
        /\ \A i \in 1 .. n - 1 + 1 : SubSeq(whole, 1, n)[i] = whole[1 + i - 1]
    BY <1>2, <2>1, SubSeqProperties
  <2> DEFINE front == SubSeq(whole, 1, n)
  <2> HIDE DEF front
  <2>3. front \in Seq(S) /\ Len(front) = n
    BY <1>2, <2>2 DEF front
  <2>4. \A i \in 1 .. n : front[i] = p[i]
    <3> SUFFICES ASSUME NEW i \in 1 .. n PROVE front[i] = p[i]
      OBVIOUS
    <3>1. i \in 1 .. n - 1 + 1 /\ 1 + i - 1 = i
      BY <1>2
    <3> QED BY <1>5, <2>2, <3>1 DEF front
  <2> HIDE DEF n
  <2>5. front = p
    BY <2>3, <2>4, SeqEqual DEF n
  <2> QED BY <2>5 DEF front
<1>10. StripQuery(p) = p
  BY DEF StripQuery, NoQuery
<1>11. SplitPath(StripQuery(whole)) = SplitPath(StripQuery(p))
  BY <1>8, <1>9, <1>10
<1> QED BY <1>11, AnswerBySegments DEF whole, asked
=============================================================================
