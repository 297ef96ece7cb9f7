----------------------- MODULE RequestHeadersTheorems -----------------------
(***************************************************************************)
(* Proofs about RequestHeaders, for every request and whatever strings are *)
(* made of.  Every variable keeps its type and the body is copied in full  *)
(* and in order (BodyInv).  What the module says of the request stands in  *)
(* headers_in from the moment it is said: a pair of the query is inserted  *)
(* and never replaces, the module's own keys are assigned, each once, and  *)
(* a header is said when no tab is left in it (SaidInv, Replacing).  The   *)
(* parser has kept, of each name, the first field of the query up to where *)
(* it stands (PairsInv).                                                   *)
(***************************************************************************)
EXTENDS RequestHeaders, SequenceTheorems, WellFoundedInduction, TLAPS

-----------------------------------------------------------------------------
(***************************************************************************)
(* Lemmas about maps, keys and places.                                     *)
(***************************************************************************)
LEMMA MapsKeep ==
    ASSUME NEW map, NEW k, NEW v
    PROVE  /\ k \in DOMAIN Assign(map, k, v) /\ Assign(map, k, v)[k] = v
           /\ \A j \in DOMAIN map :
                /\ j # k => /\ j \in DOMAIN Assign(map, k, v)
                            /\ Assign(map, k, v)[j] = map[j]
                /\ j \in DOMAIN Insert(map, k, v)
                /\ Insert(map, k, v)[j] = map[j]
<1>1. /\ DOMAIN Assign(map, k, v) = DOMAIN map \cup {k}
      /\ \A j \in DOMAIN map \cup {k} :
           Assign(map, k, v)[j] = IF j = k THEN v ELSE map[j]
  BY DEF Assign
<1>2. k \in DOMAIN map => Insert(map, k, v) = map
  BY DEF Insert
<1>3. k \notin DOMAIN map => Insert(map, k, v) = Assign(map, k, v)
  BY DEF Insert
<1> QED
  BY <1>1, <1>2, <1>3

\* No key of the module's own is another's.
LEMMA KeysDiffer ==
    /\ DOMAIN HeaderKeys = 1..5 /\ Len(HeaderKeys) = 5
    /\ \A h \in 1..5 : \A g \in 1..5 : g # h => HeaderKeys[g] # HeaderKeys[h]
    /\ \A h \in 1..5 :
         HeaderKeys[h] \notin {HTTP_REQUEST_URL, HTTP_REQUEST_PLUGINNAME,
                              HTTP_REQUEST_METHOD, HTTP_REQUEST_BODY}
    /\ HTTP_REQUEST_URL \notin {HTTP_REQUEST_PLUGINNAME, HTTP_REQUEST_METHOD,
                                HTTP_REQUEST_BODY}
    /\ HTTP_REQUEST_PLUGINNAME \notin {HTTP_REQUEST_METHOD, HTTP_REQUEST_BODY}
    /\ HTTP_REQUEST_METHOD # HTTP_REQUEST_BODY
<1>1. DOMAIN HeaderKeys = 1..5 /\ Len(HeaderKeys) = 5
  BY DEF HeaderKeys
<1>2. /\ HeaderKeys[1][1] = "__cookie__" /\ HeaderKeys[2][1] = "__forward__"
      /\ HeaderKeys[3][1] = "__user_agent__" /\ HeaderKeys[4][1] = "__referer__"
      /\ HeaderKeys[5][1] = "__ip__"
  BY DEF HeaderKeys, HTTP_REQUEST_COOKIE, HTTP_REQUEST_HEADER_FORWARD,
         HTTP_REQUEST_HEADER_USER_AGENT, HTTP_REQUEST_HEADER_REFERER,
         HTTP_REQUEST_IP
<1>3. /\ HTTP_REQUEST_URL[1] = "__url__"
      /\ HTTP_REQUEST_PLUGINNAME[1] = "__plugin_name__"
      /\ HTTP_REQUEST_METHOD[1] = "__method__" /\ HTTP_REQUEST_BODY[1] = "__body__"
  BY DEF HTTP_REQUEST_URL, HTTP_REQUEST_PLUGINNAME, HTTP_REQUEST_METHOD,
         HTTP_REQUEST_BODY
<1>4. \A h \in 1..5 : h = 1 \/ h = 2 \/ h = 3 \/ h = 4 \/ h = 5
  OBVIOUS
<1>5. \A h \in 1..5 : \A g \in 1..5 : g # h => HeaderKeys[g][1] # HeaderKeys[h][1]
  BY <1>2, <1>4
<1>6. \A h \in 1..5 :
        HeaderKeys[h][1] \notin {"__url__", "__plugin_name__", "__method__",
                                "__body__"}
  BY <1>2, <1>4
<1> QED
  BY <1>1, <1>3, <1>5, <1>6

\* Find returns a place, and the first that will do.
LEMMA FindIs ==
    ASSUME NEW s, NEW symbol, NEW from \in Nat, NEW end \in Nat, from <= end
    PROVE  LET f == Find(s, symbol, from, end)
           IN  /\ f \in from..end
               /\ f = end \/ s[f] = symbol
               /\ \A o \in from..(f - 1) : s[o] # symbol
<1> DEFINE Stops == {p \in from..end : p = end \/ s[p] = symbol}
<1>1. Stops \subseteq Nat /\ Stops # {}
  BY end \in Stops
<1> HIDE DEF Stops
<1>2. PICK p \in Stops : \A o \in Stops : <<o, p>> \notin OpToRel(<, Nat)
  BY <1>1, WFMin, NatLessThanWellFounded, Zenon
<1>3. \A o \in Stops : ~(o < p)
  BY <1>1, <1>2 DEF OpToRel
<1>4. p \in from..end /\ (p = end \/ s[p] = symbol)
  BY DEF Stops
<1>5. ASSUME NEW o \in from..(p - 1) PROVE s[o] # symbol
  <2>1. o < p /\ o \in from..end
    BY <1>4
  <2> QED
    BY <1>3, <2>1 DEF Stops
<1>6. \E f \in from..end : /\ f = end \/ s[f] = symbol
                           /\ \A o \in from..(f - 1) : s[o] # symbol
  BY <1>4, <1>5
<1> QED
  BY <1>6 DEF Find

-----------------------------------------------------------------------------
(***************************************************************************)
(* The memory the body is copied to.  Bytes is recursive over the buffers; *)
(* that it is what its recursion says follows from a least buffer at which *)
(* it would not be.                                                        *)
(***************************************************************************)
\* The recursion of Bytes, and a function that satisfies it up to n.
Upto(bufs, n, f) ==
    f = [i \in 0..n |-> IF i = 0 THEN <<>> ELSE f[i - 1] \o bufs[i].bytes]

LEMMA BytesChoose ==
    ASSUME NEW bufs, NEW n
    PROVE  Bytes(bufs, n) = (CHOOSE f : Upto(bufs, n, f))[n]
BY DEF Bytes, Upto

\* A set of naturals that has no least element is empty.
LEMMA LeastPlace ==
    ASSUME NEW T, T \subseteq Nat, T # {}
    PROVE  \E m \in T : \A o \in T : m <= o
<1>1. PICK m \in T : \A o \in T : <<o, m>> \notin OpToRel(<, Nat)
  BY WFMin, NatLessThanWellFounded, Zenon
<1>2. \A o \in T : ~(o < m)
  BY <1>1 DEF OpToRel
<1> QED
  BY <1>2

LEMMA UptoExists ==
    ASSUME NEW bufs, NEW n \in Nat
    PROVE  \E f : Upto(bufs, n, f)
<1> DEFINE T == {m \in Nat : ~ \E f : Upto(bufs, m, f)}
<1>1. SUFFICES ASSUME T # {} PROVE FALSE
  OBVIOUS
<1>2. PICK m \in T : \A o \in T : m <= o
  BY <1>1, LeastPlace
<1>3. m # 0
  <2> DEFINE f == [i \in 0..0 |-> <<>>]
  <2>1. Upto(bufs, 0, f)
    BY DEF Upto
  <2> HIDE DEF f
  <2> QED
    BY <2>1
<1>4. m - 1 \in Nat /\ m - 1 \notin T
  BY <1>2, <1>3
<1>5. PICK f : Upto(bufs, m - 1, f)
  BY <1>4
<1>6. f = [i \in 0..(m - 1) |-> IF i = 0 THEN <<>> ELSE f[i - 1] \o bufs[i].bytes]
  BY <1>5 DEF Upto
<1> DEFINE g == [i \in 0..m |-> IF i = 0 THEN <<>> ELSE f[i - 1] \o bufs[i].bytes]
<1>7. \A i \in 0..(m - 1) : g[i] = f[i]
  <2>1. \A i \in 0..(m - 1) : i \in 0..m
    BY <1>4
  <2> QED
    BY <1>6, <2>1
<1>8. \A i \in 0..m : g[i] = IF i = 0 THEN <<>> ELSE g[i - 1] \o bufs[i].bytes
  <2> SUFFICES ASSUME NEW i \in 0..m, i # 0
               PROVE  g[i] = g[i - 1] \o bufs[i].bytes
    OBVIOUS
  <2>1. i - 1 \in 0..(m - 1)
    BY <1>4
  <2>2. g[i] = f[i - 1] \o bufs[i].bytes
    OBVIOUS
  <2> QED
    BY <1>7, <2>1, <2>2
<1>9. g = [i \in 0..m |-> g[i]]
  OBVIOUS
<1> HIDE DEF g
<1>10. Upto(bufs, m, g)
  BY <1>8, <1>9 DEF Upto
<1> QED
  BY <1>2, <1>10

LEMMA UptoUnique ==
    ASSUME NEW bufs, NEW n \in Nat, NEW m \in Nat, NEW f, NEW g,
           Upto(bufs, n, f), Upto(bufs, m, g), n <= m
    PROVE  \A i \in 0..n : f[i] = g[i]
<1> DEFINE T == {i \in 0..n : f[i] # g[i]}
<1>1. SUFFICES ASSUME T # {} PROVE FALSE
  OBVIOUS
<1>2. PICK i \in T : \A o \in T : i <= o
  <2>1. T \subseteq Nat
    OBVIOUS
  <2> QED
    BY <1>1, <2>1, LeastPlace
<1>3. /\ \A j \in 0..n : f[j] = IF j = 0 THEN <<>> ELSE f[j - 1] \o bufs[j].bytes
      /\ \A j \in 0..m : g[j] = IF j = 0 THEN <<>> ELSE g[j - 1] \o bufs[j].bytes
  BY DEF Upto
<1>4. i \in 0..n /\ i \in 0..m /\ f[i] # g[i]
  BY <1>2
<1>5. i # 0
  BY <1>3, <1>4
<1>6. i - 1 \in 0..n /\ i - 1 \notin T
  BY <1>2, <1>4, <1>5
<1>7. f[i - 1] = g[i - 1]
  BY <1>6
<1> QED
  BY <1>3, <1>4, <1>5, <1>7

LEMMA BytesIs ==
    ASSUME NEW bufs
    PROVE  /\ Bytes(bufs, 0) = <<>>
           /\ \A n \in Nat \ {0} : Bytes(bufs, n) = Bytes(bufs, n - 1) \o bufs[n].bytes
<1> DEFINE u(n) == CHOOSE f : Upto(bufs, n, f)
<1>1. ASSUME NEW n \in Nat PROVE Upto(bufs, n, u(n)) /\ Bytes(bufs, n) = u(n)[n]
  BY UptoExists, BytesChoose
<1> HIDE DEF u
<1>2. ASSUME NEW n \in Nat
      PROVE  \A i \in 0..n : u(n)[i] = IF i = 0 THEN <<>> ELSE u(n)[i - 1] \o bufs[i].bytes
  BY <1>1 DEF Upto
<1>3. Bytes(bufs, 0) = <<>>
  BY <1>1, <1>2
<1>4. ASSUME NEW n \in Nat \ {0}
      PROVE  Bytes(bufs, n) = Bytes(bufs, n - 1) \o bufs[n].bytes
  <2>1. n - 1 \in Nat /\ n - 1 <= n /\ n \in 0..n /\ n - 1 \in 0..(n - 1)
    OBVIOUS
  <2>2. u(n)[n] = u(n)[n - 1] \o bufs[n].bytes
    BY <1>2, <2>1
  <2>3. u(n - 1)[n - 1] = u(n)[n - 1]
    BY <1>1, <2>1, UptoUnique
  <2> QED
    BY <1>1, <2>1, <2>2, <2>3
<1> QED
  BY <1>3, <1>4

-----------------------------------------------------------------------------
(***************************************************************************)
(* What the operators make of a request is made of strings again.          *)
(***************************************************************************)
Buffer == [file : BOOLEAN, bytes : String]

\* What the first n buffers hold.
LEMMA BytesTyped ==
    ASSUME NEW bufs \in Seq(Buffer), NEW n \in 0..Len(bufs)
    PROVE  Bytes(bufs, n) \in String
<1> DEFINE T == {m \in 0..Len(bufs) : Bytes(bufs, m) \notin String}
<1>1. SUFFICES ASSUME T # {} PROVE FALSE
  OBVIOUS
<1>2. PICK m \in T : \A o \in T : m <= o
  <2>1. T \subseteq Nat
    OBVIOUS
  <2> QED
    BY <1>1, <2>1, LeastPlace
<1>3. m \in 0..Len(bufs) /\ Bytes(bufs, m) \notin String /\ Len(bufs) \in Nat
  BY <1>2
<1>4. m # 0
  <2>1. Bytes(bufs, 0) = <<>>
    BY BytesIs
  <2>2. <<>> \in String
    BY DEF String
  <2> QED
    BY <1>3, <2>1, <2>2
<1>5. m - 1 \in 0..Len(bufs) /\ m - 1 \notin T /\ m \in Nat \ {0} /\ m \in 1..Len(bufs)
  BY <1>2, <1>3, <1>4
<1>6. Bytes(bufs, m - 1) \in String
  BY <1>5
<1>7. bufs[m].bytes \in String
  <2>1. bufs[m] \in Buffer
    BY <1>5
  <2> QED
    BY <2>1 DEF Buffer
<1>8. Bytes(bufs, m) = Bytes(bufs, m - 1) \o bufs[m].bytes
  BY <1>5, BytesIs
<1> HIDE DEF T
<1>9. \A s, t \in String : s \o t \in String
  BY DEF String
<1> QED
  BY <1>3, <1>6, <1>7, <1>8, <1>9

LEMMA BytesNext ==
    ASSUME NEW bufs \in Seq(Buffer), NEW n \in 1..Len(bufs)
    PROVE  /\ n - 1 \in 0..Len(bufs)
           /\ bufs[n] \in Buffer
           /\ bufs[n].bytes \in String
           /\ Bytes(bufs, n - 1) \in String
           /\ Bytes(bufs, n) \in String
           /\ Bytes(bufs, n) = Bytes(bufs, n - 1) \o bufs[n].bytes
           /\ Len(Bytes(bufs, n)) = Len(Bytes(bufs, n - 1)) + Len(bufs[n].bytes)
           /\ \A p \in 1..Len(Bytes(bufs, n - 1)) :
                Bytes(bufs, n)[p] = Bytes(bufs, n - 1)[p]
           /\ \A p \in 1..Len(bufs[n].bytes) :
                Bytes(bufs, n)[Len(Bytes(bufs, n - 1)) + p] = bufs[n].bytes[p]
<1>1. n - 1 \in 0..Len(bufs) /\ n \in 0..Len(bufs) /\ n \in Nat \ {0}
  OBVIOUS
<1>2. bufs[n] \in Buffer
  OBVIOUS
<1>3. bufs[n].bytes \in String
  BY <1>2 DEF Buffer
<1>4. Bytes(bufs, n - 1) \in String /\ Bytes(bufs, n) \in String
  BY <1>1, BytesTyped
<1>5. Bytes(bufs, n) = Bytes(bufs, n - 1) \o bufs[n].bytes
  BY <1>1, BytesIs
<1>6. ASSUME NEW s \in String, NEW t \in String
      PROVE  /\ Len(s \o t) = Len(s) + Len(t)
             /\ \A p \in 1..Len(s) : (s \o t)[p] = s[p]
             /\ \A p \in 1..Len(t) : (s \o t)[Len(s) + p] = t[p]
  BY DEF String
<1> QED
  BY <1>1, <1>2, <1>3, <1>4, <1>5, <1>6

LEMMA BytesGrow ==
    ASSUME NEW bufs \in Seq(Buffer), NEW n \in 0..Len(bufs)
    PROVE  Len(Bytes(bufs, n)) <= Len(Bytes(bufs, Len(bufs)))
<1> DEFINE L == Len(bufs)
           T == {d \in 0..L : ~(Len(Bytes(bufs, L - d)) <= Len(Bytes(bufs, L)))}
<1>1. L \in Nat /\ \A m \in 0..L : Len(Bytes(bufs, m)) \in Nat
  <2>1. \A s \in String : Len(s) \in Nat
    BY DEF String
  <2> QED
    BY <2>1, BytesTyped
<1>2. ASSUME T # {} PROVE FALSE
  <2>1. PICK d \in T : \A o \in T : d <= o
    <3>1. T \subseteq Nat
      OBVIOUS
    <3> QED
      BY <1>2, <3>1, LeastPlace
  <2>2. d \in 0..L /\ ~(Len(Bytes(bufs, L - d)) <= Len(Bytes(bufs, L)))
    BY <2>1
  <2>3. d # 0
    BY <1>1, <2>2
  <2>4. d - 1 \in 0..L /\ d - 1 \notin T
    BY <1>1, <2>1, <2>2, <2>3
  <2>5. Len(Bytes(bufs, L - (d - 1))) <= Len(Bytes(bufs, L))
    BY <2>4
  <2> DEFINE m == L - (d - 1)
  <2>6. m \in 1..Len(bufs) /\ m - 1 = L - d
    BY <1>1, <2>2, <2>3
  <2> HIDE DEF m, L, T
  <2>7. /\ Len(Bytes(bufs, m)) = Len(Bytes(bufs, m - 1)) + Len(bufs[m].bytes)
        /\ bufs[m].bytes \in String
    BY <2>6, BytesNext
  <2>8. Len(bufs[m].bytes) \in Nat
    BY <2>7 DEF String
  <2>9. Len(Bytes(bufs, m - 1)) \in Nat /\ Len(Bytes(bufs, m)) \in Nat /\ Len(Bytes(bufs, L)) \in Nat
    <3>1. m \in 0..L /\ m - 1 \in 0..L /\ L \in 0..L
      BY <1>1, <2>2, <2>3 DEF m
    <3> QED
      BY <1>1, <3>1
  <2>10. ~(Len(Bytes(bufs, m - 1)) <= Len(Bytes(bufs, L)))
    BY <2>2, <2>6
  <2>11. Len(Bytes(bufs, m)) <= Len(Bytes(bufs, L))
    BY <2>5 DEF m
  <2>12. \A a, b, c, e \in Nat : a = b + c /\ a <= e => b <= e
    OBVIOUS
  <2> QED
    BY <2>7, <2>8, <2>9, <2>10, <2>11, <2>12, Zenon
<1> DEFINE d == L - n
<1>3. d \in 0..L /\ L - d = n
  BY <1>1
<1>4. d \notin T
  BY <1>2
<1> QED
  BY <1>3, <1>4

LEMMA SubSeqTyped ==
    ASSUME NEW s \in String, NEW a \in Nat \ {0}, NEW b \in Int, b <= Len(s)
    PROVE  SubSeq(s, a, b) \in String
<1>1. \A i \in a..b : i \in 1..Len(s)
  BY DEF String
<1>2. \A i \in a..b : s[i] \in Symbols
  BY <1>1 DEF String
<1> QED
  BY <1>2, SubSeqProperties DEF String

LEMMA StringTypes ==
    /\ <<>> \in String
    /\ \A k \in {HTTP_REQUEST_BODY, HTTP_REQUEST_URL, HTTP_REQUEST_COOKIE,
                 HTTP_REQUEST_IP, HTTP_REQUEST_METHOD, HTTP_REQUEST_GET_METHOD,
                 HTTP_REQUEST_POST_METHOD, HTTP_REQUEST_HEADER_FORWARD,
                 HTTP_REQUEST_HEADER_REFERER, HTTP_REQUEST_HEADER_USER_AGENT,
                 HTTP_REQUEST_PLUGINNAME} : k \in String
<1>1. \A x \in Special : <<x>> \in String
  <2>1. \A x \in Symbols : <<x>> \in Seq(Symbols)
    OBVIOUS
  <2> QED
    BY <2>1, SymbolsAssumption DEF String
<1>2. {"__body__", "__url__", "__cookie__", "__ip__", "__method__", "__get__",
       "__post__", "__forward__", "__referer__", "__user_agent__",
       "__plugin_name__"} \subseteq Special
  BY DEF Special
<1>3. /\ HTTP_REQUEST_BODY \in String /\ HTTP_REQUEST_URL \in String
      /\ HTTP_REQUEST_COOKIE \in String /\ HTTP_REQUEST_IP \in String
      /\ HTTP_REQUEST_METHOD \in String /\ HTTP_REQUEST_GET_METHOD \in String
  BY <1>1, <1>2, Zenon
     DEF HTTP_REQUEST_BODY, HTTP_REQUEST_URL, HTTP_REQUEST_COOKIE,
         HTTP_REQUEST_IP, HTTP_REQUEST_METHOD, HTTP_REQUEST_GET_METHOD
<1>4. /\ HTTP_REQUEST_POST_METHOD \in String
      /\ HTTP_REQUEST_HEADER_FORWARD \in String
      /\ HTTP_REQUEST_HEADER_REFERER \in String
      /\ HTTP_REQUEST_HEADER_USER_AGENT \in String
      /\ HTTP_REQUEST_PLUGINNAME \in String
  BY <1>1, <1>2, Zenon
     DEF HTTP_REQUEST_POST_METHOD, HTTP_REQUEST_HEADER_FORWARD,
         HTTP_REQUEST_HEADER_REFERER, HTTP_REQUEST_HEADER_USER_AGENT,
         HTTP_REQUEST_PLUGINNAME
<1>5. <<>> \in String
  BY DEF String
<1> QED
  BY <1>3, <1>4, <1>5

LEMMA DecodeTyped ==
    ASSUME NEW s \in String
    PROVE  UriDecode(s) \in String /\ Compat(s) \in String
<1>1. s \in [1..Len(s) -> Symbols] /\ Len(s) \in Nat /\ DOMAIN s = 1..Len(s)
  BY DEF String
<1>2. "&" \in Symbols /\ "=" \in Symbols /\ "space" \in Symbols
  BY SymbolsAssumption DEF Special
<1>3. \A f \in [1..Len(s) -> Symbols] : f \in String
  BY <1>1 DEF String
<1>4. UriDecode(s) \in [1..Len(s) -> Symbols]
  BY <1>1, <1>2 DEF UriDecode
<1>5. Compat(s) \in String
  <2> DEFINE e == Find(s, "?&platform", 1, Len(s) + 1)
  <2>1. e \in 1..(Len(s) + 1)
    <3>1. 1 <= Len(s) + 1 /\ Len(s) + 1 \in Nat
      BY <1>1
    <3> QED
      BY <3>1, FindIs
  <2> HIDE DEF e
  <2>2. SubSeq(s, 1, e - 1) \in String
    <3>1. e - 1 \in Int /\ e - 1 <= Len(s) /\ 1 \in Nat \ {0}
      BY <1>1, <2>1
    <3> QED
      BY <3>1, SubSeqTyped
  <2> QED
    BY <2>2 DEF Compat, e
<1> QED
  BY <1>3, <1>4, <1>5

LEMMA NameBeginsIs ==
    ASSUME NEW path \in String
    PROVE  LET b == NameBegins(path)
           IN  /\ b \in 1..(Len(path) + 1)
               /\ b = 1 \/ path[b - 1] = "/"
               /\ \A o \in b..Len(path) : path[o] # "/"
<1> DEFINE L == Len(path)
           T == {d \in 0..L : d = L \/ path[L - d] = "/"}
<1>1. L \in Nat
  BY DEF String
<1>2. T \subseteq Nat /\ T # {}
  BY <1>1
<1>3. PICK d \in T : \A o \in T : d <= o
  BY <1>2, LeastPlace
<1>4. d \in 0..L /\ (d = L \/ path[L - d] = "/")
  BY <1>3
<1> DEFINE p == L - d + 1
<1>5. p \in 1..(L + 1) /\ p - 1 = L - d /\ (p = 1 \/ path[p - 1] = "/")
  BY <1>1, <1>4
<1>6. ASSUME NEW o \in p..L PROVE path[o] # "/"
  <2>1. L - o \in 0..L /\ L - o < d /\ L - (L - o) = o
    BY <1>1, <1>4
  <2>2. L - o \notin T
    BY <1>3, <1>4, <2>1
  <2> QED
    BY <2>1, <2>2
<1> HIDE DEF p, L
<1>7. \E q \in 1..(L + 1) : /\ q = 1 \/ path[q - 1] = "/"
                            /\ \A o \in q..L : path[o] # "/"
  BY <1>5, <1>6
<1> QED
  BY <1>7 DEF NameBegins, L

LEMMA ToldTyped ==
    ASSUME NEW r \in Request
    PROVE  /\ \A h \in 1..5 : Told(r)[h] \in String
           /\ PluginName(r) \in String
           /\ MethodValue(r) \in String
<1>1. /\ r.path \in String /\ r.cookies \in Seq(String)
      /\ r.forward \in Seq(String) /\ r.realip \in Seq(String)
      /\ r.agent \in Seq(String) /\ r.referer \in Seq(String) /\ r.addr \in String
  BY DEF Request
<1>2. ASSUME NEW lines \in Seq(String)
      PROVE  FirstLine(lines) \in String /\ (Len(lines) > 0 => lines[1] \in String)
  <2>1. Len(lines) > 0 => lines[1] \in String
    OBVIOUS
  <2> QED
    BY <2>1, StringTypes DEF FirstLine
<1>3. ngx_http_get_realip(r) \in String
  <2>1. CASE Len(r.realip) > 0
    BY <1>1, <1>2, <2>1 DEF ngx_http_get_realip
  <2>2. CASE ~(Len(r.realip) > 0) /\ Len(r.forward) > 0
    <3> DEFINE f == r.forward[1]
               e == Find(f, ",", 1, Len(f) + 1)
    <3>1. f \in String
      BY <1>1, <1>2, <2>2
    <3> HIDE DEF f
    <3>2. Len(f) \in Nat /\ Len(f) + 1 \in Nat /\ 1 <= Len(f) + 1
      BY <3>1 DEF String
    <3>3. e \in 1..(Len(f) + 1)
      BY <3>2, FindIs
    <3> HIDE DEF e
    <3>4. e - 1 \in Int /\ e - 1 <= Len(f) /\ 1 \in Nat \ {0}
      BY <3>2, <3>3
    <3>5. SubSeq(f, 1, e - 1) \in String
      BY <3>1, <3>4, SubSeqTyped
    <3> QED
      BY <2>2, <3>5 DEF ngx_http_get_realip, e, f
  <2>3. CASE ~(Len(r.realip) > 0) /\ ~(Len(r.forward) > 0)
    BY <1>1, <2>3 DEF ngx_http_get_realip
  <2> QED
    BY <2>1, <2>2, <2>3
<1>4. PluginName(r) \in String
  <2>1. /\ NameBegins(r.path) \in Nat \ {0} /\ Len(r.path) \in Int
        /\ Len(r.path) <= Len(r.path)
    <3>1. Len(r.path) \in Nat
      BY <1>1 DEF String
    <3>2. NameBegins(r.path) \in 1..(Len(r.path) + 1)
      BY <1>1, NameBeginsIs
    <3> QED
      BY <3>1, <3>2
  <2> QED
    BY <1>1, <2>1, SubSeqTyped DEF PluginName
<1>5. /\ ngx_http_get_cookie(r) \in String
      /\ ngx_http_get_forward(r) \in String
      /\ ngx_http_get_user_agent(r) \in String
      /\ ngx_http_get_referer(r) \in String
  BY <1>1, <1>2 DEF ngx_http_get_cookie, ngx_http_get_forward,
                    ngx_http_get_user_agent, ngx_http_get_referer
<1>6. MethodValue(r) \in String
  BY StringTypes DEF MethodValue
<1>7. \A h \in 1..5 : Told(r)[h] \in String
  <2> SUFFICES ASSUME NEW h \in 1..5 PROVE Told(r)[h] \in String
    OBVIOUS
  <2>1. h = 1 \/ h = 2 \/ h = 3 \/ h = 4 \/ h = 5
    OBVIOUS
  <2> QED
    BY <1>3, <1>5, <2>1 DEF Told
<1> QED
  BY <1>4, <1>6, <1>7

-----------------------------------------------------------------------------
(***************************************************************************)
(* The body.  What copying has reached is counted from the beginning of    *)
(* the memory, as long as no file was shorter than nginx believed.         *)
(***************************************************************************)
\* What the buffers before the next one hold.
Gathered == Bytes(request.bufs, cl - 1)

\* Where the body stands in memory: up to last are the bytes of the buffers
\* before the next one, all of them if no read was short, and there is room
\* for what is left.
Copying ==
    /\ request.method = "POST"
    /\ cl <= Len(request.bufs) + 1
    /\ Len(buf) = BodyLength
    /\ last - 1 <= Len(Gathered)
    /\ ~short => /\ last - 1 = Len(Gathered)
                 /\ \A p \in 1..Len(Gathered) : buf[p] = Gathered[p]

BodySaid ==
    request.method = "POST" /\ ~short =>
        /\ HTTP_REQUEST_BODY \in DOMAIN headers_in
        /\ headers_in[HTTP_REQUEST_BODY] =
               Bytes(request.bufs, Len(request.bufs))

BodyInv ==
    /\ TypeOK
    /\ pc \in {"url", "parse", "headers", "replace", "body"} =>
         buf = <<>> /\ last = 1 /\ cl = 1 /\ ~short
    /\ pc = "copy" => Copying
    /\ pc = "done" => BodySaid

-----------------------------------------------------------------------------
\* A map of strings stays one.
Strings(map) ==
    DOMAIN map \subseteq String /\ \A k \in DOMAIN map : map[k] \in String

LEMMA MapsTyped ==
    ASSUME NEW map, Strings(map), NEW k \in String, NEW v \in String
    PROVE  Strings(Assign(map, k, v)) /\ Strings(Insert(map, k, v))
<1>1. Strings(Assign(map, k, v))
  BY DEF Strings, Assign
<1> QED
  BY <1>1 DEF Insert

LEMMA Buffers ==
    ASSUME request \in Request
    PROVE  /\ request.bufs \in Seq(Buffer)
           /\ Len(request.bufs) \in Nat
           /\ BodyLength \in Nat
           /\ Bytes(request.bufs, Len(request.bufs)) \in String
<1>1. request.bufs \in Seq(Buffer)
  BY DEF Request, Buffer
<1>2. Len(request.bufs) \in Nat /\ Len(request.bufs) \in 0..Len(request.bufs)
  BY <1>1
<1>3. Bytes(request.bufs, Len(request.bufs)) \in String
  BY <1>1, <1>2, BytesTyped
<1> QED
  BY <1>1, <1>2, <1>3 DEF BodyLength, String

\* The round of the parser finds the end of a pair and of its key.
LEMMA PairFound ==
    ASSUME query \in String, beg \in Nat \ {0}, beg <= Len(query)
    PROVE  /\ Len(query) \in Nat
           /\ Delimiter \in beg..(Len(query) + 1)
           /\ Delimiter = Len(query) + 1 \/ query[Delimiter] = "&"
           /\ \A o \in beg..(Delimiter - 1) : query[o] # "&"
           /\ Equal \in beg..Delimiter
           /\ Equal = Delimiter \/ query[Equal] = "="
           /\ \A o \in beg..(Equal - 1) : query[o] # "="
<1>1. Len(query) \in Nat
  BY DEF String
<1>2. beg \in Nat /\ Len(query) + 1 \in Nat /\ beg <= Len(query) + 1
  BY <1>1
<1> DEFINE end == Len(query) + 1
<1>3. end \in Nat /\ beg <= end
  BY <1>2
<1> HIDE DEF end
<1>4. /\ Find(query, "&", beg, end) \in beg..end
      /\ Find(query, "&", beg, end) = end \/ query[Find(query, "&", beg, end)] = "&"
      /\ \A o \in beg..(Find(query, "&", beg, end) - 1) : query[o] # "&"
  BY <1>2, <1>3, FindIs
<1>5. /\ Delimiter \in beg..end
      /\ Delimiter = end \/ query[Delimiter] = "&"
      /\ \A o \in beg..(Delimiter - 1) : query[o] # "&"
  BY <1>4 DEF Delimiter, end
<1>6. Delimiter \in Nat /\ beg <= Delimiter
  BY <1>2, <1>3, <1>5
<1> DEFINE d == Delimiter
<1>7. d \in Nat /\ beg <= d
  BY <1>6
<1> HIDE DEF d
<1>8. /\ Find(query, "=", beg, d) \in beg..d
      /\ Find(query, "=", beg, d) = d \/ query[Find(query, "=", beg, d)] = "="
      /\ \A o \in beg..(Find(query, "=", beg, d) - 1) : query[o] # "="
  BY <1>2, <1>7, FindIs
<1>9. /\ Equal \in beg..Delimiter
      /\ Equal = Delimiter \/ query[Equal] = "="
      /\ \A o \in beg..(Equal - 1) : query[o] # "="
  BY <1>8 DEF Equal, d
<1> QED
  BY <1>1, <1>5, <1>9 DEF end

LEMMA BodyInit == Init => BodyInv
<1> SUFFICES ASSUME Init PROVE BodyInv
  OBVIOUS
<1>1. /\ pc = "url" /\ request \in Request /\ headers_in = EmptyMap
      /\ query = <<>> /\ beg = 1
      /\ header = 1 /\ tmp_str = <<>> /\ pos = 1
      /\ buf = <<>> /\ last = 1 /\ cl = 1
      /\ short = FALSE
  BY RequestsAssumption DEF Init
<1>2. /\ DOMAIN headers_in \subseteq String
      /\ \A k \in DOMAIN headers_in : headers_in[k] \in String
  BY <1>1 DEF EmptyMap
<1>3. /\ query \in String /\ tmp_str \in String /\ buf \in String
      /\ last <= Len(buf) + 1
  BY <1>1, StringTypes
<1>4. TypeOK
  <2>1. /\ beg \in Nat \ {0} /\ last \in Nat \ {0} /\ cl \in Nat \ {0}
        /\ header \in DOMAIN HeaderKeys /\ pos \in Nat \ {0}
    BY <1>1, KeysDiffer
  <2>2. short \in BOOLEAN
    BY <1>1
  <2> QED
    BY <1>1, <1>2, <1>3, <2>1, <2>2, Zenon DEF TypeOK
<1> QED
  BY <1>1, <1>4 DEF BodyInv

LEMMA DecodeUrlKeeps ==
    ASSUME BodyInv, DecodeUrl
    PROVE  BodyInv'
<1>1. /\ pc = "url" /\ pc' = "parse"
      /\ request \in Request /\ Strings(headers_in)
      /\ buf = <<>> /\ last = 1 /\ cl = 1 /\ ~short
      /\ UNCHANGED <<request, beg, header, tmp_str, pos, buf, last, cl, short>>
      /\ query' = Compat(UriDecode(request.args))
      /\ headers_in' = Assign(headers_in, HTTP_REQUEST_URL, UriDecode(request.args))
  BY DEF DecodeUrl, line, body, BodyInv, TypeOK, Strings
<1>2. UriDecode(request.args) \in String /\ query' \in String
  <2>1. request.args \in String
    BY <1>1 DEF Request
  <2> QED
    BY <1>1, <2>1, DecodeTyped
<1>3. Strings(headers_in')
  BY <1>1, <1>2, StringTypes, MapsTyped
<1>4. TypeOK'
  BY <1>1, <1>2, <1>3 DEF BodyInv, TypeOK, Strings
<1> QED
  BY <1>1, <1>4 DEF BodyInv

LEMMA ParseKeeps ==
    ASSUME BodyInv, ngx_url_parser
    PROVE  BodyInv'
<1>1. /\ pc = "parse" /\ beg <= Len(query)
      /\ query \in String /\ beg \in Nat \ {0} /\ Strings(headers_in)
      /\ UNCHANGED <<pc, request, query, header, tmp_str, pos, buf, last, cl,
                     short>>
      /\ beg' = Delimiter + 1
      /\ \/ headers_in' = headers_in
         \/ headers_in' = Insert(headers_in, SubSeq(query, beg, Equal - 1),
                                 SubSeq(query, Equal + 1, Delimiter - 1))
  BY DEF ngx_url_parser, line, body, BodyInv, TypeOK, Strings
<1>2. /\ Len(query) \in Nat
      /\ Delimiter \in beg..(Len(query) + 1) /\ Equal \in beg..Delimiter
  BY <1>1, PairFound
<1>3. SubSeq(query, beg, Equal - 1) \in String
  <2>1. Equal - 1 \in Int /\ Equal - 1 <= Len(query)
    BY <1>1, <1>2
  <2> QED
    BY <1>1, <2>1, SubSeqTyped
<1>4. SubSeq(query, Equal + 1, Delimiter - 1) \in String
  <2>1. Equal + 1 \in Nat \ {0} /\ Delimiter - 1 \in Int /\ Delimiter - 1 <= Len(query)
    BY <1>1, <1>2
  <2> QED
    BY <1>1, <2>1, SubSeqTyped
<1>5. Strings(headers_in')
  BY <1>1, <1>3, <1>4, MapsTyped
<1>6. beg' \in Nat \ {0}
  BY <1>1, <1>2
<1>7. TypeOK'
  BY <1>1, <1>5, <1>6 DEF BodyInv, TypeOK, Strings
<1> QED
  BY <1>1, <1>7 DEF BodyInv

LEMMA ParserDoneKeeps ==
    ASSUME BodyInv, ParserDone
    PROVE  BodyInv'
<1>1. /\ pc = "parse" /\ pc' = "headers"
      /\ UNCHANGED <<request, headers_in, query, beg, header, tmp_str, pos, buf,
                     last, cl, short>>
  BY DEF ParserDone, pair, line, body
<1>2. TypeOK'
  BY <1>1 DEF BodyInv, TypeOK
<1> QED
  BY <1>1, <1>2 DEF BodyInv

\* The next header is read.
LEMMA ReadTyped ==
    ASSUME request \in Request, NEW h \in 1..5, Read(h)
    PROVE  header' \in DOMAIN HeaderKeys /\ tmp_str' \in String /\ pos' \in Nat \ {0}
<1>1. tmp_str' \in String
  BY ToldTyped DEF Read
<1>2. Len(tmp_str') + 1 \in Nat /\ 1 <= Len(tmp_str') + 1
  BY <1>1 DEF String
<1>3. pos' \in 1..(Len(tmp_str') + 1)
  BY <1>2, FindIs DEF Read, FindTab
<1> QED
  BY <1>1, <1>2, <1>3, KeysDiffer DEF Read

LEMMA HandlerKeeps ==
    ASSUME BodyInv, ngx_header_handler
    PROVE  BodyInv'
<1>1. /\ pc = "headers"
      /\ UNCHANGED <<request, query, beg, buf, last, cl, short>>
      /\ Strings(headers_in) /\ request \in Request
  BY DEF ngx_header_handler, pair, body, BodyInv, TypeOK, Strings
<1>2. CASE pc' = "error" /\ UNCHANGED <<headers_in, header, tmp_str, pos>>
  <2>1. TypeOK'
    BY <1>1, <1>2 DEF BodyInv, TypeOK
  <2> QED
    BY <1>2, <2>1 DEF BodyInv
<1>3. CASE /\ headers_in' = Assign(headers_in, HTTP_REQUEST_PLUGINNAME,
                                   PluginName(request))
           /\ Read(1)
           /\ pc' = "replace"
  <2>1. Strings(headers_in')
    BY <1>1, <1>3, ToldTyped, StringTypes, MapsTyped
  <2>2. header' \in DOMAIN HeaderKeys /\ tmp_str' \in String /\ pos' \in Nat \ {0}
    BY <1>1, <1>3, ReadTyped
  <2>3. TypeOK'
    BY <1>1, <1>3, <2>1, <2>2 DEF BodyInv, TypeOK, Strings
  <2> QED
    BY <1>1, <1>3, <2>3 DEF BodyInv
<1> QED
  BY <1>2, <1>3 DEF ngx_header_handler, line

LEMMA ReplaceKeeps ==
    ASSUME BodyInv, ReplaceAll
    PROVE  BodyInv'
<1>1. /\ pc = "replace" /\ pos <= Len(tmp_str)
      /\ UNCHANGED <<pc, request, headers_in, query, beg, header, buf, last, cl,
                     short>>
      /\ tmp_str \in String /\ pos \in Nat \ {0}
      /\ tmp_str' = [tmp_str EXCEPT ![pos] = "space"]
      /\ pos' = FindTab(tmp_str', pos + 1)
  BY DEF ReplaceAll, pair, body, BodyInv, TypeOK
<1>2. tmp_str' \in String /\ Len(tmp_str') = Len(tmp_str) /\ Len(tmp_str) \in Nat
  <2>1. "space" \in Symbols
    BY SymbolsAssumption DEF Special
  <2>2. tmp_str \in Seq(Symbols)
    BY <1>1 DEF String
  <2>3. /\ [tmp_str EXCEPT ![pos] = "space"] \in Seq(Symbols)
        /\ Len([tmp_str EXCEPT ![pos] = "space"]) = Len(tmp_str)
    BY <1>1, <2>1, <2>2, ExceptSeq
  <2> QED
    BY <1>1, <2>2, <2>3 DEF String
<1>3. pos' \in Nat \ {0}
  <2>1. /\ pos + 1 \in Nat /\ Len(tmp_str') + 1 \in Nat
        /\ pos + 1 <= Len(tmp_str') + 1
    BY <1>1, <1>2
  <2>2. pos' \in (pos + 1)..(Len(tmp_str') + 1)
    BY <1>1, <2>1, FindIs DEF FindTab
  <2> QED
    BY <1>1, <2>1, <2>2
<1>4. TypeOK'
  BY <1>1, <1>2, <1>3 DEF BodyInv, TypeOK
<1> QED
  BY <1>1, <1>4 DEF BodyInv

LEMMA HeaderSaidKeeps ==
    ASSUME BodyInv, HeaderSaid
    PROVE  BodyInv'
<1>1. /\ pc = "replace"
      /\ UNCHANGED <<request, query, beg, buf, last, cl, short>>
      /\ Strings(headers_in) /\ request \in Request /\ tmp_str \in String
      /\ header \in 1..5
      /\ headers_in' =
             WithMethod(Assign(headers_in, HeaderKeys[header], tmp_str))
  BY KeysDiffer DEF HeaderSaid, pair, body, BodyInv, TypeOK, Strings
<1>2. HeaderKeys[header] \in String
  <2>1. header = 1 \/ header = 2 \/ header = 3 \/ header = 4 \/ header = 5
    BY <1>1
  <2> QED
    BY <2>1, StringTypes DEF HeaderKeys
<1>3. Strings(Assign(headers_in, HeaderKeys[header], tmp_str))
  BY <1>1, <1>2, MapsTyped
<1> DEFINE map == Assign(headers_in, HeaderKeys[header], tmp_str)
<1>4. Strings(headers_in')
  <2>1. Strings(map) /\ headers_in' = WithMethod(map)
    BY <1>1, <1>3
  <2> HIDE DEF map
  <2>2. Strings(Assign(map, HTTP_REQUEST_METHOD, MethodValue(request)))
    BY <1>1, <2>1, ToldTyped, StringTypes, MapsTyped
  <2> QED
    BY <2>1, <2>2 DEF WithMethod
<1> HIDE DEF map
<1>5. CASE header < 5 /\ Read(header + 1) /\ pc' = pc
  <2>1. header + 1 \in 1..5
    BY <1>1, <1>5
  <2>2. header' \in DOMAIN HeaderKeys /\ tmp_str' \in String /\ pos' \in Nat \ {0}
    BY <1>1, <1>5, <2>1, ReadTyped
  <2>3. TypeOK'
    BY <1>1, <1>4, <1>5, <2>2 DEF BodyInv, TypeOK, Strings
  <2> QED
    BY <1>1, <1>5, <2>3 DEF BodyInv
<1>6. CASE pc' = "body" /\ UNCHANGED <<header, tmp_str, pos>>
  <2>1. TypeOK'
    BY <1>1, <1>4, <1>6 DEF BodyInv, TypeOK, Strings
  <2> QED
    BY <1>1, <1>6, <2>1 DEF BodyInv
<1> QED
  BY <1>5, <1>6, KeysDiffer DEF HeaderSaid, line

LEMMA PostBodyKeeps ==
    ASSUME BodyInv, ngx_do_get_post_body
    PROVE  BodyInv'
<1>1. /\ pc = "body" /\ buf = <<>> /\ last = 1 /\ cl = 1 /\ ~short
      /\ UNCHANGED <<request, query, beg, header, tmp_str, pos, last, cl, short>>
      /\ Strings(headers_in) /\ request \in Request
  BY DEF ngx_do_get_post_body, pair, line, BodyInv, TypeOK, Strings
<1>2. /\ request.bufs \in Seq(Buffer) /\ Len(request.bufs) \in Nat
      /\ BodyLength \in Nat
      /\ Bytes(request.bufs, Len(request.bufs)) \in String
  BY <1>1, Buffers
<1>3. CASE request.method # "POST"
  <2>1. pc' = "done" /\ UNCHANGED <<headers_in, buf>>
    BY <1>3 DEF ngx_do_get_post_body
  <2>2. TypeOK'
    BY <1>1, <2>1 DEF BodyInv, TypeOK
  <2>3. BodySaid'
    BY <1>1, <1>3 DEF BodySaid
  <2> QED
    BY <2>1, <2>2, <2>3 DEF BodyInv
<1>4. CASE request.method = "POST" /\ BodyLength = 0
  <2>1. /\ pc' = "done" /\ buf' = buf
        /\ headers_in' = Assign(headers_in, HTTP_REQUEST_BODY, <<>>)
    BY <1>4 DEF ngx_do_get_post_body
  <2>2. Strings(headers_in')
    BY <1>1, <2>1, StringTypes, MapsTyped
  <2>3. TypeOK'
    BY <1>1, <2>1, <2>2 DEF BodyInv, TypeOK, Strings
  <2>4. Bytes(request.bufs, Len(request.bufs)) = <<>>
    <3>1. Len(Bytes(request.bufs, Len(request.bufs))) = 0
      BY <1>4 DEF BodyLength
    <3>2. \A s \in String : Len(s) = 0 => s = <<>>
      BY DEF String
    <3> QED
      BY <1>2, <3>1, <3>2
  <2>5. BodySaid'
    BY <1>1, <2>1, <2>4, MapsKeep DEF BodySaid
  <2> QED
    BY <2>1, <2>3, <2>5 DEF BodyInv
<1>5. CASE request.method = "POST" /\ BodyLength > 0
  <2>1. headers_in' = headers_in
    BY <1>5 DEF ngx_do_get_post_body
  <2>2. CASE pc' = "error" /\ buf' = buf
    <3>1. TypeOK'
      BY <1>1, <2>1, <2>2 DEF BodyInv, TypeOK
    <3> QED
      BY <2>2, <3>1 DEF BodyInv
  <2>3. CASE pc' = "copy" /\ buf' = [p \in 1..BodyLength |-> "junk"]
    <3>1. "junk" \in Symbols
      BY SymbolsAssumption DEF Special
    <3>2. buf' \in String /\ Len(buf') = BodyLength
      <4>1. buf' \in [1..BodyLength -> Symbols]
        BY <2>3, <3>1
      <4> QED
        BY <1>2, <4>1 DEF String
    <3>3. TypeOK'
      <4>1. last' <= Len(buf') + 1
        BY <1>1, <1>2, <3>2
      <4> QED
        BY <1>1, <2>1, <2>3, <3>2, <4>1 DEF BodyInv, TypeOK
    <3>4. Gathered' = <<>>
      <4>1. Bytes(request.bufs, 0) = <<>>
        BY BytesIs
      <4>2. Gathered' = Bytes(request.bufs, 0)
        BY <1>1 DEF Gathered
      <4> QED
        BY <4>1, <4>2
    <3>5. Len(Gathered') = 0
      BY <3>4
    <3>6. BodyLength' = BodyLength
      BY <1>1 DEF BodyLength
    <3>7. Copying'
      <4>1. cl' <= Len(request'.bufs) + 1 /\ last' - 1 <= Len(Gathered')
        BY <1>1, <1>2, <3>5
      <4>2. last' - 1 = Len(Gathered') /\ \A p \in 1..Len(Gathered') : FALSE
        BY <1>1, <3>5
      <4> QED
        BY <1>1, <1>5, <3>2, <3>6, <4>1, <4>2 DEF Copying
    <3> QED
      BY <2>3, <3>3, <3>7 DEF BodyInv
  <2> QED
    BY <1>5, <2>2, <2>3 DEF ngx_do_get_post_body
<1> QED
  BY <1>2, <1>3, <1>4, <1>5

LEMMA CopyKeeps ==
    ASSUME BodyInv, CopyBuffer
    PROVE  BodyInv'
<1> DEFINE bufs == request.bufs
           bytes == bufs[cl].bytes
           G == Bytes(bufs, cl - 1)
           H == Bytes(bufs, cl)
<1>1. /\ pc = "copy" /\ cl <= Len(bufs) /\ cl \in Nat \ {0}
      /\ UNCHANGED <<request, headers_in, query, beg, header, tmp_str, pos>>
      /\ request \in Request /\ buf \in String /\ last \in Nat \ {0}
      /\ last <= Len(buf) + 1
      /\ cl' = cl + 1
  BY DEF CopyBuffer, pair, line, BodyInv, TypeOK
<1>2. /\ request.method = "POST" /\ Len(buf) = BodyLength
      /\ last - 1 <= Len(G)
      /\ ~short => last - 1 = Len(G) /\ \A p \in 1..Len(G) : buf[p] = G[p]
  BY <1>1 DEF BodyInv, Copying, Gathered
<1>3. \/ pc' = "error" /\ UNCHANGED <<buf, last, short>>
      \/ \E n \in -1..Len(bytes) :
           /\ 0 <= n /\ pc' = pc
           /\ buf' = [p \in DOMAIN buf |->
                        IF p \in last..(last + n - 1) THEN bytes[p - last + 1]
                        ELSE buf[p]]
           /\ last' = last + n
           /\ short' = (short \/ n < Len(bytes))
  <2>1. Len(bytes) \in Nat
    <3>1. bufs \in Seq(Buffer)
      BY <1>1, Buffers
    <3>2. cl \in 1..Len(bufs)
      BY <1>1, <3>1
    <3>3. bytes \in String
      BY <3>1, <3>2, BytesNext
    <3> QED
      BY <3>3 DEF String
  <2>2. PICK n \in IF bufs[cl].file THEN -1..Len(bytes) ELSE {Len(bytes)} :
           \/ /\ ReadFailed(n)
              /\ pc' = "error"
              /\ UNCHANGED <<buf, last, short>>
           \/ /\ ~ReadFailed(n)
              /\ Copied(bytes, n)
              /\ short' = (short \/ n < Len(bytes))
              /\ UNCHANGED pc
    BY DEF CopyBuffer
  <2>3. n \in -1..Len(bytes)
    BY <2>1, <2>2
  <2>4. ~ReadFailed(n) => 0 <= n
    BY <2>1, <2>3 DEF ReadFailed
  <2> QED
    BY <2>2, <2>3, <2>4 DEF Copied
<1>4. /\ bufs \in Seq(Buffer) /\ Len(bufs) \in Nat /\ cl \in 1..Len(bufs)
      /\ cl + 1 <= Len(bufs) + 1
  BY <1>1, Buffers
<1>5. /\ G \in String /\ H \in String /\ bytes \in String
      /\ Len(H) = Len(G) + Len(bytes)
      /\ \A p \in 1..Len(G) : H[p] = G[p]
      /\ \A p \in 1..Len(bytes) : H[Len(G) + p] = bytes[p]
  BY <1>4, BytesNext
<1>6. Len(H) <= BodyLength
  <2>1. cl \in 0..Len(bufs)
    BY <1>4
  <2> QED
    BY <1>4, <2>1, BytesGrow DEF BodyLength
<1>7. /\ Len(G) \in Nat /\ Len(H) \in Nat /\ Len(bytes) \in Nat
      /\ Len(buf) \in Nat /\ DOMAIN buf = 1..Len(buf)
      /\ BodyLength \in Nat
      /\ \A p \in 1..Len(buf) : buf[p] \in Symbols
      /\ \A p \in 1..Len(bytes) : bytes[p] \in Symbols
  <2>1. \A s \in String : /\ Len(s) \in Nat /\ DOMAIN s = 1..Len(s)
                          /\ \A p \in 1..Len(s) : s[p] \in Symbols
    BY DEF String
  <2> QED
    BY <1>1, <1>2, <1>5, <2>1
<1>8. short \in BOOLEAN
  BY DEF BodyInv, TypeOK
<1>9. cl' \in Nat \ {0}
  BY <1>1
<1> HIDE DEF bufs, bytes, G, H
<1>10. CASE pc' = "error" /\ UNCHANGED <<buf, last, short>>
  <2>1. TypeOK'
    BY <1>1, <1>9, <1>10 DEF BodyInv, TypeOK
  <2> QED
    BY <1>10, <2>1 DEF BodyInv
<1>11. ASSUME NEW n \in -1..Len(bytes), 0 <= n, pc' = pc,
              buf' = [p \in DOMAIN buf |->
                        IF p \in last..(last + n - 1) THEN bytes[p - last + 1]
                        ELSE buf[p]],
              last' = last + n,
              short' = (short \/ n < Len(bytes))
       PROVE  BodyInv'
  <2>1. n \in Nat /\ n <= Len(bytes)
    BY <1>7, <1>11
  <2>2. ASSUME NEW p \in last..(last + n - 1)
        PROVE  p - last + 1 \in 1..Len(bytes)
    BY <1>1, <1>7, <2>1
  <2>3. buf' \in [1..Len(buf) -> Symbols]
    BY <1>7, <1>11, <2>2
  <2>4. buf' \in String /\ Len(buf') = Len(buf)
    BY <1>7, <2>3 DEF String
  <2>5. last' \in Nat \ {0}
    BY <1>1, <1>11, <2>1
  <2>6. last' - 1 <= Len(H)
    BY <1>1, <1>2, <1>5, <1>7, <1>11, <2>1
  <2>7. last' <= Len(buf') + 1
    BY <1>2, <1>6, <1>7, <2>4, <2>5, <2>6
  <2>8. short' \in BOOLEAN /\ (~short' => ~short /\ ~(n < Len(bytes)))
    BY <1>8, <1>11
  <2>9. TypeOK'
    BY <1>1, <1>9, <1>11, <2>4, <2>5, <2>7, <2>8 DEF BodyInv, TypeOK
  <2>10. ASSUME ~short'
         PROVE  last' - 1 = Len(H) /\ \A p \in 1..Len(H) : buf'[p] = H[p]
    <3>1. /\ last - 1 = Len(G) /\ \A p \in 1..Len(G) : buf[p] = G[p]
          /\ ~(n < Len(bytes))
      BY <1>2, <2>8, <2>10
    <3>2. n = Len(bytes) /\ last = Len(G) + 1
      BY <1>1, <1>7, <2>1, <3>1
    <3>3. last' - 1 = Len(H)
      BY <1>5, <1>7, <1>11, <3>2
    <3>4. ASSUME NEW p \in 1..Len(H) PROVE buf'[p] = H[p]
      <4>1. p \in 1..Len(buf)
        BY <1>2, <1>6, <1>7
      <4>2. buf'[p] = IF p \in last..(last + n - 1) THEN bytes[p - last + 1]
                      ELSE buf[p]
        BY <1>7, <1>11, <4>1
      <4>3. CASE p \in 1..Len(G)
        <5>1. p \notin last..(last + n - 1)
          BY <1>7, <3>2, <4>3
        <5> QED
          BY <1>5, <3>1, <4>2, <4>3, <5>1
      <4>4. CASE p \notin 1..Len(G)
        <5>1. p \in last..(last + n - 1)
          BY <1>5, <1>7, <3>2, <4>4
        <5> DEFINE q == p - last + 1
        <5>2. q \in 1..Len(bytes) /\ p = Len(G) + q
          BY <1>7, <2>2, <3>2, <5>1
        <5>3. buf'[p] = bytes[q]
          BY <4>2, <5>1
        <5> HIDE DEF q
        <5> QED
          BY <1>5, <5>2, <5>3
      <4> QED
        BY <4>3, <4>4
    <3> QED
      BY <3>3, <3>4
  <2>11. Gathered' = H
    <3>1. (cl + 1) - 1 = cl
      BY <1>1
    <3> QED
      BY <1>1, <3>1 DEF Gathered, H, bufs
  <2>12. BodyLength' = BodyLength
    BY <1>1 DEF BodyLength
  <2>13. Copying'
    <3>1. request'.method = "POST" /\ cl' <= Len(request'.bufs) + 1
      BY <1>1, <1>2, <1>4 DEF bufs
    <3>2. Len(buf') = BodyLength'
      BY <1>2, <2>4, <2>12
    <3> QED
      BY <2>6, <2>10, <2>11, <3>1, <3>2 DEF Copying
  <2>14. pc' = "copy"
    BY <1>1, <1>11
  <2> QED
    BY <2>9, <2>13, <2>14 DEF BodyInv
<1> QED
  BY <1>3, <1>10, <1>11

LEMMA BodyDoneKeeps ==
    ASSUME BodyInv, BodyDone
    PROVE  BodyInv'
<1>1. /\ pc = "copy" /\ pc' = "done" /\ cl > Len(request.bufs)
      /\ headers_in' = Assign(headers_in, HTTP_REQUEST_BODY, buf)
      /\ UNCHANGED <<request, query, beg, header, tmp_str, pos, buf, last, cl,
                     short>>
      /\ request \in Request /\ buf \in String /\ cl \in Nat \ {0}
      /\ Strings(headers_in) /\ Copying
  BY DEF BodyDone, pair, line, body, BodyInv, TypeOK, Strings
<1>2. Strings(headers_in')
  BY <1>1, StringTypes, MapsTyped
<1>3. TypeOK'
  BY <1>1, <1>2 DEF BodyInv, TypeOK, Strings
<1>4. ASSUME ~short
      PROVE  buf = Bytes(request.bufs, Len(request.bufs))
  <2>1. /\ Len(request.bufs) \in Nat
        /\ Bytes(request.bufs, Len(request.bufs)) \in String
    BY <1>1, Buffers
  <2>2. cl - 1 = Len(request.bufs)
    BY <1>1, <2>1 DEF Copying
  <2>3. Gathered = Bytes(request.bufs, Len(request.bufs))
    BY <2>2 DEF Gathered
  <2>4. /\ Len(buf) = Len(Gathered)
        /\ \A p \in 1..Len(Gathered) : buf[p] = Gathered[p]
    BY <1>1, <1>4, <2>3 DEF Copying, BodyLength
  <2>5. Gathered \in String
    BY <2>1, <2>3
  <2> HIDE DEF Gathered
  <2>6. buf = Gathered
    BY <1>1, <2>4, <2>5, SeqEqual DEF String
  <2> QED
    BY <2>3, <2>6
<1>5. BodySaid'
  BY <1>1, <1>4, MapsKeep DEF BodySaid
<1> QED
  BY <1>1, <1>3, <1>5 DEF BodyInv

LEMMA BodyStutter ==
    ASSUME BodyInv, UNCHANGED vars
    PROVE  BodyInv'
<1>1. UNCHANGED <<pc, request, headers_in, query, beg, header, tmp_str, pos, buf,
                  last, cl, short>>
  BY DEF vars, pair, line, body
<1>2. TypeOK'
  BY <1>1 DEF BodyInv, TypeOK
<1>3. (Copying <=> Copying') /\ (BodySaid <=> BodySaid')
  BY <1>1 DEF Copying, BodySaid, Gathered, BodyLength
<1> QED
  BY <1>1, <1>2, <1>3 DEF BodyInv

LEMMA BodyInvariance == Spec => []BodyInv
<1>1. BodyInv /\ [Next]_vars => BodyInv'
  BY DecodeUrlKeeps, ParseKeeps, ParserDoneKeeps, HandlerKeeps, ReplaceKeeps,
     HeaderSaidKeeps, PostBodyKeeps, CopyKeeps, BodyDoneKeeps, BodyStutter DEF Next
<1> QED
  BY <1>1, BodyInit, PTL DEF Spec

\* Every variable keeps its type: keys and values are strings, and what is
\* written of the body stays within the memory that was allocated for it,
\* however many buffers there are and whatever the reads give
\* (ngx_do_get_post_body).
THEOREM TypeCorrect == Spec => []TypeOK
<1>1. BodyInv => TypeOK
  BY DEF BodyInv
<1> QED
  BY <1>1, BodyInvariance, PTL

\* For every request whose files are as long as nginx believed: the body is
\* there, whole and in order.
THEOREM BodyIsWhole == Spec => []BodyWhole
<1>1. BodyInv => BodyWhole
  BY DEF BodyInv, BodySaid, BodyWhole
<1> QED
  BY <1>1, BodyInvariance, PTL

-----------------------------------------------------------------------------
(***************************************************************************)
(* The query.  What stands in headers_in is told, at every round of the    *)
(* parser, by the fields before the place it has come to.                  *)
(***************************************************************************)
\* Fields, HasName and what the parser has made of the fields before a place,
\* of any query.
FieldsOf(q) ==
    {f \in (1..(Len(q) + 1)) \X (0..Len(q)) :
        /\ f[1] <= f[2] + 1
        /\ f[1] = 1 \/ q[f[1] - 1] = "&"
        /\ f[2] = Len(q) \/ q[f[2] + 1] = "&"
        /\ \A p \in f[1]..f[2] : q[p] # "&"}

Names(q, f, k) ==
    /\ Len(k) > 0
    /\ \A i \in DOMAIN k : k[i] # "="
    /\ f[1] + Len(k) - 1 <= f[2]
    /\ SubSeq(q, f[1], f[1] + Len(k) - 1) = k
    /\ f[1] + Len(k) <= f[2] => q[f[1] + Len(k)] = "="

Comes(q, k, f) ==
    /\ f \in FieldsOf(q)
    /\ Names(q, f, k)
    /\ \A g \in FieldsOf(q) : Names(q, g, k) => f[1] <= g[1]

Parsed(map, own, q, b) ==
    /\ \A f \in FieldsOf(q) : f[1] < b =>
         \A k \in String : Names(q, f, k) => k \in DOMAIN map
    /\ \A k \in DOMAIN map \ own :
         \E f : /\ Comes(q, k, f)
                /\ map[k] = SubSeq(q, f[1] + Len(k) + 1, f[2])

PairsInv ==
    /\ pc = "url" => beg = 1 /\ headers_in = EmptyMap
    /\ pc = "parse" =>
         /\ query = Query
         /\ beg <= Len(query) => beg = 1 \/ query[beg - 1] = "&"
         /\ Parsed(headers_in, OwnKeys, Query, beg)
    /\ pc \in {"headers", "replace", "body", "copy", "done"} =>
         Parsed(headers_in, OwnKeys, Query, Len(Query) + 2)

-----------------------------------------------------------------------------
LEMMA FieldTypes ==
    ASSUME NEW q \in String, NEW f \in FieldsOf(q)
    PROVE  /\ Len(q) \in Nat
           /\ f[1] \in 1..(Len(q) + 1) /\ f[2] \in 0..Len(q)
           /\ f = <<f[1], f[2]>>
           /\ f[1] <= f[2] + 1
           /\ f[1] = 1 \/ q[f[1] - 1] = "&"
           /\ f[2] = Len(q) \/ q[f[2] + 1] = "&"
           /\ \A p \in f[1]..f[2] : q[p] # "&"
<1>1. Len(q) \in Nat
  BY DEF String
<1> QED
  BY <1>1 DEF FieldsOf

\* One field begins where the last one ended, and no other before it ends.
LEMMA FieldAt ==
    ASSUME NEW q \in String, NEW b \in Nat \ {0}, b <= Len(q),
           b = 1 \/ q[b - 1] = "&",
           NEW d \in b..(Len(q) + 1), d = Len(q) + 1 \/ q[d] = "&",
           \A o \in b..(d - 1) : q[o] # "&"
    PROVE  /\ <<b, d - 1>> \in FieldsOf(q)
           /\ \A f \in FieldsOf(q) : f[1] < d + 1 => f[1] < b \/ f = <<b, d - 1>>
<1>1. Len(q) \in Nat
  BY DEF String
<1>2. <<b, d - 1>> \in FieldsOf(q)
  <2>1. /\ b \in 1..(Len(q) + 1) /\ d - 1 \in 0..Len(q) /\ b <= (d - 1) + 1
        /\ d - 1 = Len(q) \/ q[(d - 1) + 1] = "&"
    BY <1>1
  <2> QED
    BY <2>1 DEF FieldsOf
<1>3. ASSUME NEW f \in FieldsOf(q), f[1] < d + 1, ~(f[1] < b)
      PROVE  f = <<b, d - 1>>
  <2>1. /\ f[1] \in 1..(Len(q) + 1) /\ f[2] \in 0..Len(q)
        /\ f = <<f[1], f[2]>> /\ f[1] <= f[2] + 1
        /\ f[1] = 1 \/ q[f[1] - 1] = "&"
        /\ f[2] = Len(q) \/ q[f[2] + 1] = "&"
        /\ \A p \in f[1]..f[2] : q[p] # "&"
    BY FieldTypes
  <2>2. f[1] = b
    <3>1. SUFFICES ASSUME f[1] > b PROVE FALSE
      BY <1>3, <2>1
    <3>2. f[1] - 1 \in b..(d - 1) /\ f[1] # 1
      BY <1>1, <1>3, <2>1, <3>1
    <3> QED
      BY <2>1, <3>2
  <2>3. f[2] = d - 1
    <3>1. ASSUME f[2] < d - 1 PROVE FALSE
      <4>1. f[2] + 1 \in b..(d - 1) /\ f[2] # Len(q)
        BY <1>1, <2>1, <2>2, <3>1
      <4> QED
        BY <2>1, <4>1
    <3>2. ASSUME f[2] > d - 1 PROVE FALSE
      <4>1. d \in f[1]..f[2] /\ d # Len(q) + 1
        BY <1>1, <2>1, <2>2, <3>2
      <4> QED
        BY <2>1, <4>1
    <3> QED
      BY <2>1, <3>1, <3>2
  <2> QED
    BY <2>1, <2>2, <2>3
<1> QED
  BY <1>2, <1>3

LEMMA PieceOf ==
    ASSUME NEW q \in String, NEW a \in Nat \ {0}, NEW z \in Int,
           z <= Len(q), a <= z + 1
    PROVE  /\ SubSeq(q, a, z) \in String
           /\ Len(SubSeq(q, a, z)) = z - a + 1
           /\ DOMAIN SubSeq(q, a, z) = 1..(z - a + 1)
           /\ \A i \in 1..(z - a + 1) : SubSeq(q, a, z)[i] = q[a + i - 1]
<1>1. \A i \in a..z : q[i] \in Symbols
  <2>1. \A i \in a..z : i \in 1..Len(q)
    BY DEF String
  <2> QED
    BY <2>1 DEF String
<1>2. /\ SubSeq(q, a, z) \in Seq(Symbols)
      /\ Len(SubSeq(q, a, z)) = IF a <= z THEN z - a + 1 ELSE 0
      /\ \A i \in 1..z - a + 1 : SubSeq(q, a, z)[i] = q[a + i - 1]
  BY <1>1, SubSeqProperties
<1>3. Len(SubSeq(q, a, z)) = z - a + 1
  BY <1>2
<1>4. DOMAIN SubSeq(q, a, z) = 1..Len(SubSeq(q, a, z))
  BY <1>2
<1> QED
  BY <1>2, <1>3, <1>4 DEF String

\* The name of a field ends at its first '=', or with it.
LEMMA NameAt ==
    ASSUME NEW q \in String, NEW b \in Nat \ {0}, b <= Len(q),
           NEW d \in b..(Len(q) + 1),
           NEW e \in b..d, e = d \/ q[e] = "=",
           \A o \in b..(e - 1) : q[o] # "="
    PROVE  /\ SubSeq(q, b, e - 1) \in String
           /\ Len(SubSeq(q, b, e - 1)) = e - b
           /\ e # b => Names(q, <<b, d - 1>>, SubSeq(q, b, e - 1))
           /\ \A k \in String :
                Names(q, <<b, d - 1>>, k) => e # b /\ k = SubSeq(q, b, e - 1)
<1> DEFINE key == SubSeq(q, b, e - 1)
<1>1. /\ Len(q) \in Nat /\ e - 1 \in Int /\ e - 1 <= Len(q) /\ b <= (e - 1) + 1
      /\ (e - 1) - b + 1 = e - b
  BY DEF String
<1>2. /\ key \in String
      /\ Len(key) = e - b
      /\ DOMAIN key = 1..(e - b)
      /\ \A i \in 1..(e - b) : key[i] = q[b + i - 1]
  BY <1>1, PieceOf
<1>a. key = SubSeq(q, b, e - 1)
  OBVIOUS
<1> HIDE DEF key
<1>3. ASSUME e # b PROVE Names(q, <<b, d - 1>>, key)
  <2>1. Len(key) > 0
    BY <1>2, <1>3
  <2>2. ASSUME NEW i \in DOMAIN key PROVE key[i] # "="
    <3>1. i \in 1..(e - b) /\ b + i - 1 \in b..(e - 1)
      BY <1>2
    <3> QED
      BY <1>2, <3>1
  <2>3. /\ b + Len(key) - 1 = e - 1 /\ e - 1 <= d - 1
        /\ b + Len(key) = e
    BY <1>2
  <2>4. e <= d - 1 => q[e] = "="
    OBVIOUS
  <2>5. SubSeq(q, b, b + Len(key) - 1) = key
    BY <1>a, <2>3
  <2> QED
    BY <2>1, <2>2, <2>3, <2>4, <2>5 DEF Names
<1>4. ASSUME NEW k \in String, Names(q, <<b, d - 1>>, k)
      PROVE  e # b /\ k = key
  <2> DEFINE n == Len(k)
  <2>1. /\ n \in Nat /\ n > 0 /\ DOMAIN k = 1..n
        /\ \A i \in 1..n : k[i] # "="
        /\ b + n - 1 <= d - 1
        /\ SubSeq(q, b, b + n - 1) = k
        /\ b + n <= d - 1 => q[b + n] = "="
    <3>1. n \in Nat /\ DOMAIN k = 1..n
      BY DEF String
    <3> QED
      BY <1>4, <3>1 DEF Names
  <2> HIDE DEF n
  <2>2. \A i \in 1..n : k[i] = q[b + i - 1]
    <3>1. /\ b + n - 1 \in Int /\ b + n - 1 <= Len(q) /\ b <= (b + n - 1) + 1
          /\ (b + n - 1) - b + 1 = n
      BY <1>1, <2>1
    <3>2. \A i \in 1..((b + n - 1) - b + 1) : SubSeq(q, b, b + n - 1)[i] = q[b + i - 1]
      BY <3>1, PieceOf
    <3> QED
      BY <2>1, <3>1, <3>2
  <2>3. b + n = e
    <3>1. ASSUME b + n < e PROVE FALSE
      <4>1. b + n \in b..(e - 1) /\ b + n <= d - 1
        BY <1>1, <2>1, <3>1
      <4> QED
        BY <2>1, <4>1
    <3>2. ASSUME b + n > e PROVE FALSE
      <4> DEFINE i == e - b + 1
      <4>1. i \in 1..n /\ b + i - 1 = e /\ e # d
        BY <1>1, <2>1, <3>2
      <4>2. k[i] = q[e]
        BY <2>2, <4>1
      <4> QED
        BY <2>1, <4>1, <4>2
    <3>3. e \in Int
      OBVIOUS
    <3> QED
      BY <2>1, <3>1, <3>2, <3>3
  <2>4. e # b /\ b + n - 1 = e - 1
    BY <2>1, <2>3
  <2> QED
    BY <1>a, <2>1, <2>4
<1> QED
  BY <1>2, <1>3, <1>4 DEF key

-----------------------------------------------------------------------------
\* A round of the parser reads one more field.
LEMMA ParsedFurther ==
    ASSUME NEW q \in String, NEW b \in Nat \ {0}, b <= Len(q),
           b = 1 \/ q[b - 1] = "&",
           NEW d \in b..(Len(q) + 1), d = Len(q) + 1 \/ q[d] = "&",
           \A o \in b..(d - 1) : q[o] # "&",
           NEW e \in b..d, e = d \/ q[e] = "=",
           \A o \in b..(e - 1) : q[o] # "=",
           NEW map, NEW own, Parsed(map, own, q, b)
    PROVE  Parsed(IF e = b THEN map
                  ELSE Insert(map, SubSeq(q, b, e - 1), SubSeq(q, e + 1, d - 1)),
                  own, q, d + 1)
<1> DEFINE later == IF e = b THEN map
                    ELSE Insert(map, SubSeq(q, b, e - 1), SubSeq(q, e + 1, d - 1))
           field == <<b, d - 1>>
           key == SubSeq(q, b, e - 1)
           val == SubSeq(q, e + 1, d - 1)
<1>1. /\ field \in FieldsOf(q)
      /\ \A f \in FieldsOf(q) : f[1] < d + 1 => f[1] < b \/ f = field
  BY FieldAt
<1>2. /\ key \in String /\ Len(key) = e - b
      /\ e # b => Names(q, field, key)
      /\ \A k \in String : Names(q, field, k) => e # b /\ k = key
  BY NameAt
<1>3. /\ DOMAIN map \subseteq DOMAIN later
      /\ \A k \in DOMAIN map : later[k] = map[k]
      /\ e # b => key \in DOMAIN later
      /\ \A k \in DOMAIN later : k \in DOMAIN map \/ (e # b /\ k = key)
      /\ e # b /\ key \notin DOMAIN map => later[key] = val
  <2>1. CASE e = b
    BY <2>1
  <2>2. CASE e # b /\ key \in DOMAIN map
    <3>1. later = map
      BY <2>2 DEF Insert
    <3> QED
      BY <2>2, <3>1
  <2>3. CASE e # b /\ key \notin DOMAIN map
    <3>1. later = Assign(map, key, val)
      BY <2>3 DEF Insert
    <3> HIDE DEF key, val
    <3>2. /\ DOMAIN later = DOMAIN map \cup {key}
          /\ \A j \in DOMAIN map \cup {key} : later[j] = IF j = key THEN val ELSE map[j]
      BY <3>1 DEF Assign
    <3> QED
      BY <2>3, <3>2
  <2> QED
    BY <2>1, <2>2, <2>3
<1>4. field[1] = b /\ field[2] = d - 1 /\ field[1] + Len(key) + 1 = e + 1
  BY <1>2
<1> HIDE DEF key, field, later
<1>5. ASSUME NEW f \in FieldsOf(q), f[1] < d + 1, NEW k \in String, Names(q, f, k)
      PROVE  k \in DOMAIN later
  <2>1. CASE f[1] < b
    BY <1>3, <1>5, <2>1 DEF Parsed
  <2>2. CASE f = field
    BY <1>2, <1>3, <1>5, <2>2
  <2> QED
    BY <1>1, <1>5, <2>1, <2>2
<1>6. ASSUME NEW k \in DOMAIN later \ own
      PROVE  \E f : /\ Comes(q, k, f)
                    /\ later[k] = SubSeq(q, f[1] + Len(k) + 1, f[2])
  <2>1. CASE k \in DOMAIN map
    <3>1. PICK f : Comes(q, k, f) /\ map[k] = SubSeq(q, f[1] + Len(k) + 1, f[2])
      BY <2>1 DEF Parsed
    <3>2. later[k] = map[k]
      BY <1>3, <2>1
    <3> QED
      BY <3>1, <3>2
  <2>2. CASE k \notin DOMAIN map
    <3>1. e # b /\ k = key /\ later[k] = val
      BY <1>3, <2>2
    <3>2. ASSUME NEW g \in FieldsOf(q), Names(q, g, k)
          PROVE  field[1] <= g[1]
      <4>1. ~(g[1] < b)
        BY <1>2, <2>2, <3>1, <3>2 DEF Parsed
      <4>2. g[1] \in Int
        BY FieldTypes
      <4> QED
        BY <1>4, <4>1, <4>2
    <3>3. Comes(q, k, field)
      BY <1>1, <1>2, <3>1, <3>2 DEF Comes
    <3>4. later[k] = SubSeq(q, field[1] + Len(k) + 1, field[2])
      BY <1>4, <3>1
    <3> QED
      BY <3>3, <3>4
  <2> QED
    BY <2>1, <2>2
<1>7. Parsed(later, own, q, d + 1)
  BY <1>5, <1>6 DEF Parsed
<1> QED
  BY <1>7 DEF later

\* When no byte is left, no field with a name is.
LEMMA ParsedAll ==
    ASSUME NEW q \in String, NEW b \in Nat, b > Len(q),
           NEW map, NEW own, Parsed(map, own, q, b)
    PROVE  Parsed(map, own, q, Len(q) + 2)
<1>1. ASSUME NEW f \in FieldsOf(q), NEW k \in String, Names(q, f, k)
      PROVE  k \in DOMAIN map
  <2>1. /\ Len(q) \in Nat /\ f[1] \in Int /\ f[2] \in Int /\ f[2] <= Len(q)
        /\ Len(k) \in Nat
    <3>1. Len(k) \in Nat
      BY DEF String
    <3> QED
      BY <3>1, FieldTypes
  <2>2. Len(k) > 0 /\ f[1] + Len(k) - 1 <= f[2]
    BY <1>1 DEF Names
  <2>3. f[1] < b
    BY <2>1, <2>2
  <2> QED
    BY <1>1, <2>3 DEF Parsed
<1> QED
  BY <1>1 DEF Parsed

\* What is said under the module's own keys does not matter.
LEMMA ParsedKept ==
    ASSUME NEW q, NEW b, NEW own, NEW map, Parsed(map, own, q, b),
           NEW later, DOMAIN map \subseteq DOMAIN later,
           \A k \in DOMAIN later \ own : k \in DOMAIN map /\ later[k] = map[k]
    PROVE  Parsed(later, own, q, b)
BY DEF Parsed

\* The loop over the cut says the same as the cut said without one.
LEMMA QueryIs ==
    ASSUME request \in Request
    PROVE  Query = Compat(UriDecode(request.args)) /\ Query \in String
<1> DEFINE s == UriDecode(request.args)
           Cuts == {p \in DOMAIN s : s[p] = "?&platform"}
           e == Find(s, "?&platform", 1, Len(s) + 1)
           first == CHOOSE p \in Cuts : \A o \in Cuts : p <= o
<1>1. s \in String /\ Compat(s) \in String
  <2>1. request.args \in String
    BY DEF Request
  <2> QED
    BY <2>1, DecodeTyped
<1>2. Query = SubSeq(s, 1, IF Cuts = {} THEN Len(s) ELSE first - 1)
  BY DEF Query
<1>3. Compat(s) = SubSeq(s, 1, e - 1)
  BY DEF Compat
<1> HIDE DEF s
<1>4. Len(s) \in Nat /\ DOMAIN s = 1..Len(s) /\ Len(s) + 1 \in Nat /\ 1 <= Len(s) + 1
  BY <1>1 DEF String
<1>5. /\ e \in 1..(Len(s) + 1)
      /\ e = Len(s) + 1 \/ s[e] = "?&platform"
      /\ \A o \in 1..(e - 1) : s[o] # "?&platform"
  BY <1>4, FindIs
<1> HIDE DEF e
<1>6. CASE e = Len(s) + 1
  <2>1. Cuts = {}
    BY <1>4, <1>5, <1>6
  <2>2. e - 1 = Len(s)
    BY <1>4, <1>6
  <2> QED
    BY <1>1, <1>2, <1>3, <2>1, <2>2 DEF s
<1>7. CASE e # Len(s) + 1
  <2>1. e \in Cuts
    BY <1>4, <1>5, <1>7
  <2>2. \A o \in Cuts : e <= o
    <3> SUFFICES ASSUME NEW o \in Cuts, o < e PROVE FALSE
      BY <1>4, <1>5
    <3>1. o \in 1..(e - 1)
      BY <1>4, <1>5
    <3> QED
      BY <1>5, <3>1
  <2>3. first \in Cuts /\ \A o \in Cuts : first <= o
    BY <2>1, <2>2
  <2>4. first = e
    <3>1. first <= e /\ e <= first
      BY <2>1, <2>2, <2>3
    <3>2. first \in Int /\ e \in Int
      BY <1>4, <1>5, <2>3
    <3> HIDE DEF first
    <3> QED
      BY <3>1, <3>2
  <2>5. Cuts # {}
    BY <2>1
  <2> QED
    BY <1>1, <1>2, <1>3, <2>4, <2>5 DEF s
<1> QED
  BY <1>6, <1>7

LEMMA KeysOwned ==
    /\ HTTP_REQUEST_URL \in OwnKeys /\ HTTP_REQUEST_PLUGINNAME \in OwnKeys
    /\ \A h \in 1..5 : HeaderKeys[h] \in OwnKeys
    /\ request.method # "HEAD" => HTTP_REQUEST_METHOD \in OwnKeys
    /\ request.method = "POST" => HTTP_REQUEST_BODY \in OwnKeys
BY KeysDiffer DEF OwnKeys

\* What the query says depends on nothing but the request.
LEMMA QueryStays ==
    ASSUME request' = request
    PROVE  Query' = Query /\ OwnKeys' = OwnKeys
BY DEF Query, OwnKeys

\* later differs from map under the module's own keys only.
OwnDiffer(later, map) ==
    /\ DOMAIN map \subseteq DOMAIN later
    /\ \A k \in DOMAIN later \ OwnKeys : k \in DOMAIN map /\ later[k] = map[k]

LEMMA OwnAssigned ==
    ASSUME NEW map, NEW j \in OwnKeys, NEW v
    PROVE  OwnDiffer(Assign(map, j, v), map)
<1>1. /\ DOMAIN Assign(map, j, v) = DOMAIN map \cup {j}
      /\ \A k \in DOMAIN map \cup {j} :
           Assign(map, j, v)[k] = IF k = j THEN v ELSE map[k]
  BY DEF Assign
<1> QED
  BY <1>1 DEF OwnDiffer

LEMMA OwnTwice ==
    ASSUME NEW a, NEW b, NEW c, OwnDiffer(a, b), OwnDiffer(b, c)
    PROVE  OwnDiffer(a, c)
BY DEF OwnDiffer

LEMMA HeadersDiffer ==
    ASSUME BodyInv, HeaderSaid
    PROVE  OwnDiffer(headers_in', headers_in)
<1> DEFINE map == Assign(headers_in, HeaderKeys[header], tmp_str)
<1>1. header \in 1..5 /\ headers_in' = WithMethod(map)
  BY KeysDiffer DEF HeaderSaid, BodyInv, TypeOK
<1>2. OwnDiffer(map, headers_in)
  BY <1>1, KeysOwned, OwnAssigned
<1> HIDE DEF map
<1>3. CASE headers_in' = map
  BY <1>2, <1>3
<1>4. CASE /\ request.method # "HEAD"
           /\ headers_in' = Assign(map, HTTP_REQUEST_METHOD, MethodValue(request))
  <2>1. OwnDiffer(headers_in', map)
    BY <1>4, KeysOwned, OwnAssigned
  <2> QED
    BY <1>2, <2>1, OwnTwice
<1> QED
  BY <1>1, <1>3, <1>4 DEF WithMethod

LEMMA PairsStep ==
    ASSUME BodyInv, PairsInv, [Next]_vars
    PROVE  PairsInv'
<1>1. request' = request /\ request \in Request
  BY DEF BodyInv, TypeOK, Next, vars, DecodeUrl, ngx_url_parser, ParserDone,
         ngx_header_handler, ReplaceAll, HeaderSaid, ngx_do_get_post_body,
         CopyBuffer, BodyDone
<1>2. /\ Query' = Query /\ OwnKeys' = OwnKeys
      /\ Query = Compat(UriDecode(request.args)) /\ Query \in String
  BY <1>1, QueryStays, QueryIs
<1>3. CASE DecodeUrl
  <2>1. /\ pc' = "parse" /\ beg' = 1 /\ query' = Query
        /\ headers_in' = Assign(EmptyMap, HTTP_REQUEST_URL, UriDecode(request.args))
    BY <1>2, <1>3 DEF DecodeUrl, PairsInv
  <2>2. DOMAIN headers_in' = {HTTP_REQUEST_URL}
    BY <2>1 DEF Assign, EmptyMap
  <2>3. Parsed(headers_in', OwnKeys, Query, 1)
    <3>1. \A f \in FieldsOf(Query) : ~(f[1] < 1)
      BY <1>2, FieldTypes
    <3>2. DOMAIN headers_in' \ OwnKeys = {}
      BY <2>2, KeysOwned
    <3> QED
      BY <3>1, <3>2 DEF Parsed
  <2> QED
    BY <1>2, <2>1, <2>3 DEF PairsInv
<1>4. CASE ngx_url_parser
  <2>1. /\ pc = "parse" /\ pc' = pc /\ beg <= Len(query)
        /\ query = Query /\ query' = query
        /\ beg \in Nat \ {0}
        /\ beg = 1 \/ query[beg - 1] = "&"
        /\ Parsed(headers_in, OwnKeys, query, beg)
        /\ headers_in' = IF Equal = beg THEN headers_in
                         ELSE Insert(headers_in, SubSeq(query, beg, Equal - 1),
                                     SubSeq(query, Equal + 1, Delimiter - 1))
        /\ beg' = Delimiter + 1
    BY <1>4 DEF ngx_url_parser, PairsInv, BodyInv, TypeOK
  <2>2. /\ Len(query) \in Nat
        /\ Delimiter \in beg..(Len(query) + 1)
        /\ Delimiter = Len(query) + 1 \/ query[Delimiter] = "&"
        /\ \A o \in beg..(Delimiter - 1) : query[o] # "&"
        /\ Equal \in beg..Delimiter
        /\ Equal = Delimiter \/ query[Equal] = "="
        /\ \A o \in beg..(Equal - 1) : query[o] # "="
    BY <1>2, <2>1, PairFound
  <2>3. Parsed(headers_in', OwnKeys, query, Delimiter + 1)
    <3> DEFINE d == Delimiter
               e == Equal
               map == headers_in
    <3>1. /\ d \in beg..(Len(query) + 1)
          /\ d = Len(query) + 1 \/ query[d] = "&"
          /\ \A o \in beg..(d - 1) : query[o] # "&"
          /\ e \in beg..d
          /\ e = d \/ query[e] = "="
          /\ \A o \in beg..(e - 1) : query[o] # "="
      BY <2>2
    <3>2. headers_in' = IF e = beg THEN map
                        ELSE Insert(map, SubSeq(query, beg, e - 1),
                                    SubSeq(query, e + 1, d - 1))
      BY <2>1
    <3>3. Parsed(map, OwnKeys, query, beg)
      BY <2>1
    <3> HIDE DEF d, e, map
    <3>4. Parsed(IF e = beg THEN map
                 ELSE Insert(map, SubSeq(query, beg, e - 1),
                             SubSeq(query, e + 1, d - 1)),
                 OwnKeys, query, d + 1)
      BY <1>2, <2>1, <3>1, <3>3, ParsedFurther
    <3> QED
      BY <3>2, <3>4 DEF d
  <2>4. beg' <= Len(query) => query[beg' - 1] = "&"
    <3>1. beg' - 1 = Delimiter /\ (beg' <= Len(query) => Delimiter # Len(query) + 1)
      BY <2>1, <2>2
    <3> QED
      BY <2>2, <3>1
  <2> QED
    BY <1>2, <2>1, <2>3, <2>4 DEF PairsInv
<1>5. CASE ParserDone
  <2>1. /\ pc = "parse" /\ pc' = "headers" /\ beg > Len(query)
        /\ headers_in' = headers_in /\ query = Query /\ beg \in Nat
        /\ Parsed(headers_in, OwnKeys, Query, beg)
    BY <1>5 DEF ParserDone, PairsInv, BodyInv, TypeOK
  <2>2. Parsed(headers_in, OwnKeys, Query, Len(Query) + 2)
    BY <1>2, <2>1, ParsedAll
  <2> QED
    BY <1>2, <2>1, <2>2 DEF PairsInv
<1>6. CASE \/ ngx_header_handler \/ ReplaceAll \/ HeaderSaid
           \/ ngx_do_get_post_body \/ CopyBuffer \/ BodyDone
  <2>1. /\ pc \in {"headers", "replace", "body", "copy"}
        /\ pc' \in {"replace", "body", "copy", "done", "error"}
    BY <1>6 DEF ngx_header_handler, ReplaceAll, HeaderSaid, ngx_do_get_post_body,
                CopyBuffer, BodyDone
  <2>2. Parsed(headers_in, OwnKeys, Query, Len(Query) + 2)
    BY <2>1 DEF PairsInv
  <2>3. OwnDiffer(headers_in', headers_in)
    <3>1. CASE headers_in' = headers_in
      BY <3>1 DEF OwnDiffer
    <3>2. CASE ngx_header_handler
      BY <3>1, <3>2, KeysOwned, OwnAssigned DEF ngx_header_handler
    <3>3. CASE HeaderSaid
      BY <3>3, HeadersDiffer
    <3>4. CASE ngx_do_get_post_body \/ BodyDone
      <4>1. \/ headers_in' = headers_in
            \/ /\ request.method = "POST"
               /\ \E v : headers_in' = Assign(headers_in, HTTP_REQUEST_BODY, v)
        BY <3>4 DEF ngx_do_get_post_body, BodyDone, BodyInv, Copying
      <4> QED
        BY <3>1, <4>1, KeysOwned, OwnAssigned
    <3> QED
      BY <1>6, <3>1, <3>2, <3>3, <3>4 DEF ReplaceAll, CopyBuffer
  <2>4. Parsed(headers_in', OwnKeys, Query, Len(Query) + 2)
    <3> DEFINE later == headers_in'
               map == headers_in
    <3>1. /\ Parsed(map, OwnKeys, Query, Len(Query) + 2)
          /\ DOMAIN map \subseteq DOMAIN later
          /\ \A k \in DOMAIN later \ OwnKeys : k \in DOMAIN map /\ later[k] = map[k]
      BY <2>2, <2>3 DEF OwnDiffer
    <3> HIDE DEF later, map
    <3>2. Parsed(later, OwnKeys, Query, Len(Query) + 2)
      BY <3>1, ParsedKept
    <3> QED
      BY <3>2 DEF later
  <2> QED
    BY <1>2, <2>1, <2>4 DEF PairsInv
<1>7. CASE UNCHANGED vars
  BY <1>2, <1>7 DEF vars, pair, PairsInv
<1> QED
  BY <1>3, <1>4, <1>5, <1>6, <1>7 DEF Next

\* For every request, whatever its query: no named field of it is lost, cut
\* short or taken for another, and of several with one name the first counts.
THEOREM FirstPairAlwaysWins == Spec => []FirstPairWins
<1>1. Init => PairsInv
  BY DEF Init, PairsInv
<1>2. BodyInv /\ PairsInv /\ [Next]_vars => PairsInv'
  BY PairsStep
<1>3. BodyInv /\ PairsInv => FirstPairWins
  <2> SUFFICES ASSUME BodyInv, PairsInv, pc = "done"
               PROVE  FirstPairWins
    BY DEF FirstPairWins
  <2>1. /\ Query \in String
        /\ Parsed(headers_in, OwnKeys, Query, Len(Query) + 2)
    BY QueryIs DEF PairsInv, BodyInv, TypeOK
  <2>2. Fields = FieldsOf(Query)
    BY DEF Fields, FieldsOf
  <2>3. \A f, k : HasName(f, k) <=> Names(Query, f, k)
    BY DEF HasName, Names
  <2>4. ASSUME NEW f \in Fields, NEW e \in f[1]..f[2],
               HasName(f, SubSeq(Query, f[1], e))
        PROVE  SubSeq(Query, f[1], e) \in DOMAIN headers_in
    <3>1. /\ Len(Query) \in Nat
          /\ f[1] \in 1..(Len(Query) + 1) /\ f[2] \in 0..Len(Query)
      BY <2>1, <2>2, FieldTypes
    <3>2. f[1] \in Nat \ {0} /\ e \in Int /\ e <= Len(Query) /\ f[1] < Len(Query) + 2
      BY <3>1
    <3>3. SubSeq(Query, f[1], e) \in String
      BY <2>1, <3>2, SubSeqTyped
    <3> QED
      BY <2>1, <2>2, <2>3, <2>4, <3>2, <3>3 DEF Parsed
  <2>5. ASSUME NEW k \in DOMAIN headers_in \ OwnKeys
        PROVE  \E f \in Firsts(k) :
                  headers_in[k] = SubSeq(Query, f[1] + Len(k) + 1, f[2])
    <3>1. PICK f : /\ Comes(Query, k, f)
                   /\ headers_in[k] = SubSeq(Query, f[1] + Len(k) + 1, f[2])
      BY <2>1 DEF Parsed
    <3>2. f \in Firsts(k)
      BY <2>2, <2>3, <3>1 DEF Comes, Firsts
    <3> QED
      BY <3>1, <3>2
  <2> QED
    BY <2>4, <2>5 DEF FirstPairWins
<1> QED
  BY <1>1, <1>2, <1>3, BodyInvariance, PTL DEF Spec
-----------------------------------------------------------------------------
(***************************************************************************)
(* What the module says under its own keys.                                *)
(***************************************************************************)
NameSaid ==
    /\ \E p \in DOMAIN request.path : request.path[p] = "/"
    /\ Holds(HTTP_REQUEST_PLUGINNAME, PluginName(request))

MethodSaid ==
    request.method # "HEAD" => Holds(HTTP_REQUEST_METHOD, MethodValue(request))

\* The first n headers.
HeadersSaid(n) ==
    \A h \in 1..n : Holds(HeaderKeys[h], Spaced(Told(request)[h]))

\* Up to pos no tab is left of the text, from there on it is as it was, and pos
\* is at a tab unless there is none.
Replacing ==
    LET s == Told(request)[header]
    IN  /\ Len(tmp_str) = Len(s)
        /\ pos \in 1..(Len(s) + 1)
        /\ pos <= Len(s) => tmp_str[pos] = "tab"
        /\ \A p \in 1..Len(s) :
             tmp_str[p] = IF p < pos THEN Spaced(s)[p] ELSE s[p]

SaidInv ==
    /\ pc \in {"parse", "headers", "replace", "body", "copy", "done"} =>
         Holds(HTTP_REQUEST_URL, UriDecode(request.args))
    /\ pc \in {"replace", "body", "copy", "done"} => NameSaid
    /\ pc = "replace" =>
         /\ Replacing
         /\ HeadersSaid(header - 1)
         /\ header > 1 => MethodSaid
    /\ pc \in {"body", "copy", "done"} => HeadersSaid(5) /\ MethodSaid

\* What a map says under a key.
Says(map, k, v) == k \in DOMAIN map /\ map[k] = v

LEMMA SaysKeep ==
    ASSUME NEW map, NEW j, NEW w
    PROVE  /\ Says(Assign(map, j, w), j, w)
           /\ \A k, v : Says(map, k, v) =>
                /\ Says(Insert(map, j, w), k, v)
                /\ k # j => Says(Assign(map, j, w), k, v)
<1>1. /\ j \in DOMAIN Assign(map, j, w) /\ Assign(map, j, w)[j] = w
      /\ \A i \in DOMAIN map :
           /\ i # j => /\ i \in DOMAIN Assign(map, j, w)
                       /\ Assign(map, j, w)[i] = map[i]
           /\ i \in DOMAIN Insert(map, j, w)
           /\ Insert(map, j, w)[i] = map[i]
  BY MapsKeep
<1> QED
  BY <1>1 DEF Says

\* A request does not change, and nor does what is made of it.
LEMMA SaidStays ==
    ASSUME request' = request, NEW map, map = headers_in'
    PROVE  /\ Holds(HTTP_REQUEST_URL, UriDecode(request.args))' <=>
                Says(map, HTTP_REQUEST_URL, UriDecode(request.args))
           /\ NameSaid' <=>
                /\ \E p \in DOMAIN request.path : request.path[p] = "/"
                /\ Says(map, HTTP_REQUEST_PLUGINNAME, PluginName(request))
           /\ MethodSaid' <=>
                (request.method # "HEAD" =>
                   Says(map, HTTP_REQUEST_METHOD, MethodValue(request)))
           /\ \A n \in Int : HeadersSaid(n)' <=>
                \A h \in 1..n : Says(map, HeaderKeys[h], Spaced(Told(request)[h]))
           /\ Told(request)' = Told(request)
<1>1. Told(request)' = Told(request)
  BY DEF Told, ngx_http_get_cookie, ngx_http_get_forward,
         ngx_http_get_user_agent, ngx_http_get_referer, ngx_http_get_realip,
         FirstLine
<1>2. PluginName(request)' = PluginName(request)
  BY DEF PluginName, NameBegins
<1>3. MethodValue(request)' = MethodValue(request)
  BY DEF MethodValue
<1> QED
  BY <1>1, <1>2, <1>3 DEF Holds, Says, NameSaid, MethodSaid, HeadersSaid, Spaced

LEMMA SpacedIs ==
    ASSUME NEW s \in String
    PROVE  /\ Spaced(s) \in String /\ Len(Spaced(s)) = Len(s)
           /\ \A p \in 1..Len(s) :
                Spaced(s)[p] = IF s[p] = "tab" THEN "space" ELSE s[p]
<1>1. s \in [1..Len(s) -> Symbols] /\ Len(s) \in Nat /\ DOMAIN s = 1..Len(s)
  BY DEF String
<1>2. "space" \in Symbols
  BY SymbolsAssumption DEF Special
<1>3. Spaced(s) \in [1..Len(s) -> Symbols]
  BY <1>1, <1>2 DEF Spaced
<1>4. \A f \in [1..Len(s) -> Symbols] : f \in String /\ Len(f) = Len(s)
  BY <1>1 DEF String
<1>5. \A p \in 1..Len(s) :
        Spaced(s)[p] = IF s[p] = "tab" THEN "space" ELSE s[p]
  BY <1>1 DEF Spaced
<1> QED
  BY <1>3, <1>4, <1>5

\* A header that has just been read has nothing replaced.
LEMMA ReadReplacing ==
    ASSUME request \in Request, request' = request, NEW h \in 1..5, Read(h)
    PROVE  Replacing'
<1> DEFINE s == Told(request)[h]
           f == FindTab(s, 1)
<1>1. /\ header' = h /\ tmp_str' = s /\ pos' = f
  BY DEF Read
<1>2. Told(request)'[header'] = s
  BY <1>1, SaidStays
<1>3. s \in String
  BY ToldTyped
<1> HIDE DEF s
<1>4. Len(s) \in Nat /\ Len(s) + 1 \in Nat /\ 1 <= Len(s) + 1
  BY <1>3 DEF String
<1>5. /\ f \in 1..(Len(s) + 1)
      /\ f = Len(s) + 1 \/ s[f] = "tab"
      /\ \A o \in 1..(f - 1) : s[o] # "tab"
  BY <1>4, FindIs DEF FindTab
<1> HIDE DEF f
<1>6. f <= Len(s) => s[f] = "tab"
  BY <1>4, <1>5
<1>7. ASSUME NEW p \in 1..Len(s)
      PROVE  s[p] = IF p < f THEN Spaced(s)[p] ELSE s[p]
  <2>1. p < f => p \in 1..(f - 1)
    BY <1>4, <1>5
  <2> QED
    BY <1>3, <1>5, <2>1, SpacedIs
<1> QED
  BY <1>1, <1>2, <1>5, <1>6, <1>7 DEF Replacing

\* A round of ReplaceAll's loop.
LEMMA RoundReplacing ==
    ASSUME BodyInv, Replacing, ReplaceAll
    PROVE  Replacing'
<1> DEFINE s == Told(request)[header]
           t == tmp_str'
           f == FindTab(t, pos + 1)
<1>1. /\ request' = request /\ header' = header /\ pos' = f
      /\ t = [tmp_str EXCEPT ![pos] = "space"]
      /\ request \in Request /\ header \in 1..5
      /\ tmp_str \in String /\ pos \in Nat \ {0} /\ pos <= Len(tmp_str)
  BY KeysDiffer DEF ReplaceAll, BodyInv, TypeOK
<1>2. Told(request)'[header'] = s
  BY <1>1, SaidStays
<1>3. s \in String
  BY <1>1, ToldTyped
<1>4. /\ Len(tmp_str) = Len(s)
      /\ pos <= Len(s) => tmp_str[pos] = "tab"
      /\ \A p \in 1..Len(s) :
           tmp_str[p] = IF p < pos THEN Spaced(s)[p] ELSE s[p]
  BY DEF Replacing
<1> HIDE DEF s
<1>5. Len(s) \in Nat /\ pos \in 1..Len(s) /\ pos + 1 <= Len(s) + 1
  BY <1>1, <1>3, <1>4 DEF String
<1>6. /\ Len(t) = Len(s)
      /\ \A p \in 1..Len(s) : t[p] = IF p = pos THEN "space" ELSE tmp_str[p]
  <2>1. tmp_str \in Seq(Symbols) /\ "space" \in Symbols
    BY <1>1, SymbolsAssumption DEF Special, String
  <2> QED
    BY <1>1, <1>4, <1>5, <2>1, ExceptSeq
<1> HIDE DEF t
<1>7. /\ f \in (pos + 1)..(Len(s) + 1)
      /\ f = Len(s) + 1 \/ t[f] = "tab"
      /\ \A o \in (pos + 1)..(f - 1) : t[o] # "tab"
  <2>1. pos + 1 \in Nat /\ Len(s) + 1 \in Nat
    BY <1>5
  <2> QED
    BY <1>5, <1>6, <2>1, FindIs DEF FindTab
<1> HIDE DEF f
<1>8. f \in 1..(Len(s) + 1) /\ (f <= Len(s) => t[f] = "tab")
  BY <1>5, <1>7
<1>9. ASSUME NEW p \in 1..Len(s)
      PROVE  t[p] = IF p < f THEN Spaced(s)[p] ELSE s[p]
  <2>1. Spaced(s)[p] = IF s[p] = "tab" THEN "space" ELSE s[p]
    BY <1>3, SpacedIs
  <2>2. /\ t[p] = IF p = pos THEN "space" ELSE tmp_str[p]
        /\ tmp_str[p] = IF p < pos THEN Spaced(s)[p] ELSE s[p]
    BY <1>4, <1>6
  <2>3. CASE p < pos
    BY <1>5, <1>7, <2>2, <2>3
  <2>4. CASE p = pos
    <3>1. s[p] = "tab" /\ p < f
      BY <1>4, <1>5, <1>7, <2>2, <2>4
    <3> QED
      BY <2>1, <2>2, <2>4, <3>1
  <2>5. CASE p > pos
    <3>1. t[p] = s[p]
      BY <1>5, <2>2, <2>5
    <3>2. p < f => p \in (pos + 1)..(f - 1)
      BY <1>5, <1>7, <2>5
    <3> QED
      BY <1>7, <2>1, <3>1, <3>2
  <2> QED
    BY <1>5, <2>3, <2>4, <2>5
<1> QED
  BY <1>1, <1>2, <1>6, <1>8, <1>9 DEF Replacing, t

\* When no tab is left, the text is what is promised.
LEMMA ReplacedAll ==
    ASSUME BodyInv, Replacing, pos > Len(tmp_str)
    PROVE  tmp_str = Spaced(Told(request)[header])
<1> DEFINE s == Told(request)[header]
<1>1. /\ request \in Request /\ header \in 1..5
      /\ tmp_str \in String /\ pos \in Nat \ {0}
  BY KeysDiffer DEF BodyInv, TypeOK
<1>2. s \in String
  BY <1>1, ToldTyped
<1>3. /\ Len(tmp_str) = Len(s)
      /\ \A p \in 1..Len(s) :
           tmp_str[p] = IF p < pos THEN Spaced(s)[p] ELSE s[p]
  BY DEF Replacing
<1> HIDE DEF s
<1>4. Len(s) \in Nat /\ \A p \in 1..Len(s) : p < pos
  BY <1>1, <1>2, <1>3 DEF String
<1>5. Spaced(s) \in String /\ Len(Spaced(s)) = Len(s)
  BY <1>2, SpacedIs
<1>6. tmp_str = Spaced(s)
  BY <1>1, <1>3, <1>4, <1>5, SeqEqual DEF String
<1> QED
  BY <1>6 DEF s

LEMMA HandlerSays ==
    ASSUME BodyInv, SaidInv, ngx_header_handler
    PROVE  SaidInv'
<1>1. CASE pc' = "error"
  BY <1>1 DEF SaidInv
<1>2. CASE pc' # "error"
  <2>1. /\ pc = "headers" /\ pc' = "replace" /\ request' = request
        /\ \E p \in DOMAIN request.path : request.path[p] = "/"
        /\ headers_in' = Assign(headers_in, HTTP_REQUEST_PLUGINNAME,
                                PluginName(request))
        /\ Read(1) /\ request \in Request
    BY <1>2 DEF ngx_header_handler, BodyInv, TypeOK
  <2>2. Says(headers_in, HTTP_REQUEST_URL, UriDecode(request.args))
    BY <2>1 DEF SaidInv, Holds, Says
  <2>3. Replacing' /\ header' = 1
    BY <2>1, ReadReplacing DEF Read
  <2>4. /\ Says(headers_in', HTTP_REQUEST_URL, UriDecode(request.args))
        /\ Says(headers_in', HTTP_REQUEST_PLUGINNAME, PluginName(request))
    BY <2>1, <2>2, SaysKeep, KeysDiffer
  <2>5. Holds(HTTP_REQUEST_URL, UriDecode(request.args))' /\ NameSaid'
    BY <2>1, <2>4, SaidStays
  <2>6. HeadersSaid(header - 1)' /\ ~(header' > 1)
    BY <2>3 DEF HeadersSaid
  <2> QED
    BY <2>1, <2>3, <2>5, <2>6 DEF SaidInv
<1> QED
  BY <1>1, <1>2

LEMMA HeaderSays ==
    ASSUME BodyInv, SaidInv, HeaderSaid
    PROVE  SaidInv'
<1> DEFINE map == Assign(headers_in, HeaderKeys[header], tmp_str)
           later == headers_in'
<1>1. /\ pc = "replace" /\ pos > Len(tmp_str) /\ request' = request
      /\ later = WithMethod(map) /\ request \in Request /\ header \in 1..5
  BY KeysDiffer DEF HeaderSaid, BodyInv, TypeOK
<1>2. /\ Says(headers_in, HTTP_REQUEST_URL, UriDecode(request.args))
      /\ \E p \in DOMAIN request.path : request.path[p] = "/"
      /\ Says(headers_in, HTTP_REQUEST_PLUGINNAME, PluginName(request))
      /\ \A h \in 1..(header - 1) :
           Says(headers_in, HeaderKeys[h], Spaced(Told(request)[h]))
      /\ header > 1 /\ request.method # "HEAD" =>
           Says(headers_in, HTTP_REQUEST_METHOD, MethodValue(request))
      /\ Replacing
  BY <1>1 DEF SaidInv, Holds, Says, NameSaid, MethodSaid, HeadersSaid
<1>3. tmp_str = Spaced(Told(request)[header])
  BY <1>1, <1>2, ReplacedAll
<1>4. /\ Says(map, HTTP_REQUEST_URL, UriDecode(request.args))
      /\ Says(map, HTTP_REQUEST_PLUGINNAME, PluginName(request))
      /\ header > 1 /\ request.method # "HEAD" =>
           Says(map, HTTP_REQUEST_METHOD, MethodValue(request))
  BY <1>1, <1>2, SaysKeep, KeysDiffer
<1>5. ASSUME NEW h \in 1..header
      PROVE  Says(map, HeaderKeys[h], Spaced(Told(request)[h]))
  <2>1. CASE h = header
    BY <1>3, <2>1, SaysKeep
  <2>2. CASE h # header
    <3>1. h \in 1..(header - 1) /\ h \in 1..5
      BY <1>1, <2>2
    <3>2. HeaderKeys[h] # HeaderKeys[header]
      BY <1>1, <2>2, <3>1, KeysDiffer
    <3> QED
      BY <1>2, <3>1, <3>2, SaysKeep
  <2> QED
    BY <2>1, <2>2
<1> HIDE DEF map, later
<1>6. /\ Says(later, HTTP_REQUEST_URL, UriDecode(request.args))
      /\ Says(later, HTTP_REQUEST_PLUGINNAME, PluginName(request))
      /\ request.method # "HEAD" =>
           Says(later, HTTP_REQUEST_METHOD, MethodValue(request))
      /\ \A h \in 1..header :
           Says(later, HeaderKeys[h], Spaced(Told(request)[h]))
  <2>1. CASE header # 1 \/ request.method = "HEAD"
    <3>1. later = map /\ (header > 1 \/ request.method = "HEAD")
      BY <1>1, <2>1 DEF WithMethod
    <3> QED
      BY <1>4, <1>5, <3>1
  <2>2. CASE ~(header # 1 \/ request.method = "HEAD")
    <3>1. later = Assign(map, HTTP_REQUEST_METHOD, MethodValue(request))
      BY <1>1, <2>2 DEF WithMethod
    <3>2. \A h \in 1..header : HeaderKeys[h] # HTTP_REQUEST_METHOD
      BY <1>1, KeysDiffer
    <3> QED
      BY <1>4, <1>5, <3>1, <3>2, SaysKeep, KeysDiffer
  <2> QED
    BY <2>1, <2>2
<1>7. /\ Holds(HTTP_REQUEST_URL, UriDecode(request.args))'
      /\ NameSaid' /\ MethodSaid'
      /\ \A n \in Int : HeadersSaid(n)' <=>
           \A h \in 1..n : Says(later, HeaderKeys[h], Spaced(Told(request)[h]))
  BY <1>1, <1>2, <1>6, SaidStays DEF later
<1>8. CASE header < 5 /\ Read(header + 1) /\ pc' = pc
  <2>1. header + 1 \in 1..5 /\ header' = header + 1 /\ header' - 1 = header
    BY <1>1, <1>8 DEF Read
  <2>2. Replacing'
    BY <1>1, <1>8, <2>1, ReadReplacing
  <2>3. HeadersSaid(header - 1)'
    BY <1>1, <1>6, <2>1 DEF HeadersSaid, Holds, Says, later, Told,
       ngx_http_get_cookie, ngx_http_get_forward, ngx_http_get_user_agent,
       ngx_http_get_referer, ngx_http_get_realip, FirstLine
  <2> QED
    BY <1>1, <1>7, <1>8, <2>2, <2>3 DEF SaidInv
<1>9. CASE header = 5 /\ pc' = "body"
  <2>1. HeadersSaid(5)'
    BY <1>6, <1>7, <1>9
  <2> QED
    BY <1>7, <1>9, <2>1 DEF SaidInv
<1> QED
  BY <1>8, <1>9, KeysDiffer DEF HeaderSaid

LEMMA SaidStep ==
    ASSUME BodyInv, SaidInv, [Next]_vars
    PROVE  SaidInv'
<1>1. CASE DecodeUrl
  <2>1. /\ pc' = "parse" /\ request' = request
        /\ headers_in' = Assign(headers_in, HTTP_REQUEST_URL,
                                UriDecode(request.args))
    BY <1>1 DEF DecodeUrl
  <2>2. Holds(HTTP_REQUEST_URL, UriDecode(request.args))'
    BY <2>1, SaysKeep, SaidStays
  <2> QED
    BY <2>1, <2>2 DEF SaidInv
<1>2. CASE ngx_url_parser \/ ParserDone
  <2>1. /\ pc = "parse" /\ pc' \in {"parse", "headers"} /\ request' = request
        /\ \/ headers_in' = headers_in
           \/ \E k, v : headers_in' = Insert(headers_in, k, v)
    BY <1>2 DEF ngx_url_parser, ParserDone
  <2>2. Says(headers_in, HTTP_REQUEST_URL, UriDecode(request.args))
    BY <2>1 DEF SaidInv, Holds, Says
  <2>3. Holds(HTTP_REQUEST_URL, UriDecode(request.args))'
    BY <2>1, <2>2, SaysKeep, SaidStays
  <2> QED
    BY <2>1, <2>3 DEF SaidInv
<1>3. CASE ngx_header_handler
  BY <1>3, HandlerSays
<1>4. CASE ReplaceAll
  <2>1. /\ pc = "replace" /\ pc' = pc /\ request' = request
        /\ headers_in' = headers_in /\ header' = header
    BY <1>4 DEF ReplaceAll
  <2>2. Replacing'
    BY <1>4, <2>1, RoundReplacing DEF SaidInv
  <2>3. /\ Holds(HTTP_REQUEST_URL, UriDecode(request.args))' /\ NameSaid'
        /\ HeadersSaid(header - 1)' /\ (header' > 1 => MethodSaid')
    BY <2>1, SaidStays DEF SaidInv, Holds, Says, NameSaid, MethodSaid, HeadersSaid
  <2> QED
    BY <2>1, <2>2, <2>3 DEF SaidInv
<1>5. CASE HeaderSaid
  BY <1>5, HeaderSays
<1>6. CASE ngx_do_get_post_body \/ CopyBuffer \/ BodyDone
  <2>1. /\ pc \in {"body", "copy"} /\ request' = request
        /\ pc' \in {"copy", "done", "error"}
        /\ \/ headers_in' = headers_in
           \/ \E v : headers_in' = Assign(headers_in, HTTP_REQUEST_BODY, v)
    BY <1>6 DEF ngx_do_get_post_body, CopyBuffer, BodyDone
  <2>2. /\ Says(headers_in, HTTP_REQUEST_URL, UriDecode(request.args))
        /\ \E p \in DOMAIN request.path : request.path[p] = "/"
        /\ Says(headers_in, HTTP_REQUEST_PLUGINNAME, PluginName(request))
        /\ \A h \in 1..5 :
             Says(headers_in, HeaderKeys[h], Spaced(Told(request)[h]))
        /\ request.method # "HEAD" =>
             Says(headers_in, HTTP_REQUEST_METHOD, MethodValue(request))
    BY <2>1 DEF SaidInv, Holds, Says, NameSaid, MethodSaid, HeadersSaid
  <2>3. /\ Says(headers_in', HTTP_REQUEST_URL, UriDecode(request.args))
        /\ Says(headers_in', HTTP_REQUEST_PLUGINNAME, PluginName(request))
        /\ \A h \in 1..5 :
             Says(headers_in', HeaderKeys[h], Spaced(Told(request)[h]))
        /\ request.method # "HEAD" =>
             Says(headers_in', HTTP_REQUEST_METHOD, MethodValue(request))
    BY <2>1, <2>2, SaysKeep, KeysDiffer
  <2>4. /\ Holds(HTTP_REQUEST_URL, UriDecode(request.args))'
        /\ NameSaid' /\ MethodSaid' /\ HeadersSaid(5)'
    BY <2>1, <2>2, <2>3, SaidStays
  <2> QED
    BY <2>1, <2>4 DEF SaidInv
<1>7. CASE UNCHANGED vars
  <2>1. /\ pc' = pc /\ request' = request /\ headers_in' = headers_in
        /\ header' = header /\ tmp_str' = tmp_str /\ pos' = pos
    BY <1>7 DEF vars, line
  <2>2. Told(request)' = Told(request)
    BY <2>1, SaidStays
  <2>3. Replacing => Replacing'
    BY <2>1, <2>2 DEF Replacing, Spaced
  <2>4. /\ Holds(HTTP_REQUEST_URL, UriDecode(request.args)) =>
             Holds(HTTP_REQUEST_URL, UriDecode(request.args))'
        /\ NameSaid => NameSaid'
        /\ MethodSaid => MethodSaid'
        /\ \A n \in Int : HeadersSaid(n) => HeadersSaid(n)'
    BY <2>1, SaidStays DEF Holds, Says, NameSaid, MethodSaid, HeadersSaid
  <2>5. header - 1 \in Int
    BY DEF BodyInv, TypeOK, HeaderKeys
  <2> QED
    BY <2>1, <2>3, <2>4, <2>5 DEF SaidInv
<1> QED
  BY <1>1, <1>2, <1>3, <1>4, <1>5, <1>6, <1>7 DEF Next

LEMMA SaidInvariance == Spec => []SaidInv
<1>1. Init => SaidInv
  BY DEF Init, SaidInv
<1>2. BodyInv /\ SaidInv /\ [Next]_vars => SaidInv'
  BY SaidStep
<1> QED
  BY <1>1, <1>2, BodyInvariance, PTL DEF Spec

\* For every request, whatever its query holds: the plugin that is called is
\* the one after the last '/' of the path, and it is told the whole query and
\* the method of a GET or a POST.
THEOREM OwnKeysAlwaysWin == Spec => []OwnKeysWin
<1>1. BodyInv /\ SaidInv => OwnKeysWin
  <2> SUFFICES ASSUME BodyInv, SaidInv, pc = "done"
               PROVE  OwnKeysWin
    BY DEF OwnKeysWin
  <2> DEFINE path == request.path
             b == NameBegins(path)
  <2>1. /\ Holds(HTTP_REQUEST_URL, UriDecode(request.args))
        /\ NameSaid /\ MethodSaid
    BY DEF SaidInv
  <2>2. path \in String
    BY DEF BodyInv, TypeOK, Request
  <2> HIDE DEF path
  <2>3. /\ b \in 1..(Len(path) + 1)
        /\ b = 1 \/ path[b - 1] = "/"
        /\ \A o \in b..Len(path) : path[o] # "/"
    BY <2>2, NameBeginsIs
  <2>4. PICK q \in DOMAIN path : path[q] = "/"
    BY <2>1 DEF NameSaid, path
  <2>5. Holds(HTTP_REQUEST_PLUGINNAME, SubSeq(path, b, Len(path)))
    BY <2>1 DEF NameSaid, PluginName, path
  <2> HIDE DEF b
  <2>6. Len(path) \in Nat /\ DOMAIN path = 1..Len(path)
    BY <2>2 DEF String
  <2>7. b # 1
    BY <2>3, <2>4, <2>6
  <2>8. b - 1 \in DOMAIN path /\ path[b - 1] = "/" /\ (b - 1) + 1 = b
    BY <2>3, <2>6, <2>7
  <2>9. \A o \in DOMAIN SubSeq(path, b, Len(path)) :
           SubSeq(path, b, Len(path))[o] # "/"
    <3>1. /\ b \in Nat \ {0} /\ Len(path) \in Int /\ b <= Len(path) + 1
      BY <2>3, <2>6
    <3>2. /\ DOMAIN SubSeq(path, b, Len(path)) = 1..(Len(path) - b + 1)
          /\ \A i \in 1..(Len(path) - b + 1) :
               SubSeq(path, b, Len(path))[i] = path[b + i - 1]
      BY <2>2, <3>1, PieceOf
    <3>3. \A i \in 1..(Len(path) - b + 1) : b + i - 1 \in b..Len(path)
      BY <2>6, <3>1
    <3> QED
      BY <2>3, <3>2, <3>3
  <2>10. \E p \in DOMAIN path :
            LET name == SubSeq(path, p + 1, Len(path))
            IN  /\ path[p] = "/"
                /\ \A o \in DOMAIN name : name[o] # "/"
                /\ Holds(HTTP_REQUEST_PLUGINNAME, name)
    BY <2>5, <2>8, <2>9
  <2>11. /\ request.method = "GET" =>
              Holds(HTTP_REQUEST_METHOD, HTTP_REQUEST_GET_METHOD)
         /\ request.method = "POST" =>
              Holds(HTTP_REQUEST_METHOD, HTTP_REQUEST_POST_METHOD)
    BY <2>1 DEF MethodSaid, MethodValue
  <2> QED
    BY <2>1, <2>10, <2>11 DEF OwnKeysWin, path
<1> QED
  BY <1>1, BodyInvariance, SaidInvariance, PTL

\* For every request, whatever its query holds: each header is told as it was
\* sent, every tab of it made a space.
THEOREM HeadersAlwaysSpaced == Spec => []HeadersSpaced
<1>1. SaidInv => HeadersSpaced
  <2> SUFFICES ASSUME SaidInv, pc = "done" PROVE HeadersSpaced
    BY DEF HeadersSpaced
  <2>1. \A h \in 1..5 : Holds(HeaderKeys[h], Spaced(Told(request)[h]))
    BY DEF SaidInv, HeadersSaid
  <2>2. /\ Holds(HTTP_REQUEST_COOKIE, Spaced(ngx_http_get_cookie(request)))
        /\ Holds(HTTP_REQUEST_HEADER_FORWARD,
                 Spaced(ngx_http_get_forward(request)))
        /\ Holds(HTTP_REQUEST_HEADER_USER_AGENT,
                 Spaced(ngx_http_get_user_agent(request)))
        /\ Holds(HTTP_REQUEST_HEADER_REFERER,
                 Spaced(ngx_http_get_referer(request)))
        /\ Holds(HTTP_REQUEST_IP, Spaced(ngx_http_get_realip(request)))
    BY <2>1 DEF HeaderKeys, Told
  <2>3. Len(request.realip) > 0 => ngx_http_get_realip(request) = request.realip[1]
    BY DEF ngx_http_get_realip
  <2>4. Len(request.realip) = 0 /\ Len(request.forward) = 0 =>
           ngx_http_get_realip(request) = request.addr
    BY DEF ngx_http_get_realip
  <2> QED
    BY <2>2, <2>3, <2>4 DEF HeadersSpaced, ngx_http_get_cookie,
       ngx_http_get_forward, ngx_http_get_user_agent, ngx_http_get_referer
<1> QED
  BY <1>1, SaidInvariance, PTL

\* For every request: the address is what __forward__ begins with.
THEOREM AddressIsOfForward == Spec => []AddressOfForward
<1>1. BodyInv /\ SaidInv => AddressOfForward
  <2> SUFFICES ASSUME BodyInv, SaidInv, pc = "done",
                      Len(request.realip) = 0, Len(request.forward) > 0
               PROVE  LET ip == headers_in[HTTP_REQUEST_IP]
                          forward == headers_in[HTTP_REQUEST_HEADER_FORWARD]
                      IN  /\ Len(ip) <= Len(forward)
                          /\ ip = SubSeq(forward, 1, Len(ip))
                          /\ \A p \in DOMAIN ip : ip[p] # ","
                          /\ Len(ip) < Len(forward) =>
                               forward[Len(ip) + 1] = ","
    BY DEF AddressOfForward
  <2> DEFINE f == request.forward[1]
             e == Find(f, ",", 1, Len(f) + 1)
             ip == headers_in[HTTP_REQUEST_IP]
             forward == headers_in[HTTP_REQUEST_HEADER_FORWARD]
  <2>1. f \in Seq(Symbols)
    <3>1. request.forward \in Seq(String)
      BY DEF BodyInv, TypeOK, Request
    <3>2. request.forward[1] \in String
      BY <3>1
    <3> QED
      BY <3>2 DEF String
  <2>2. \A h \in 1..5 : Holds(HeaderKeys[h], Spaced(Told(request)[h]))
    BY DEF SaidInv, HeadersSaid
  <2>3. forward = Spaced(f)
    <3>1. ngx_http_get_forward(request) = f
      BY DEF ngx_http_get_forward, FirstLine
    <3> QED
      BY <2>2, <3>1 DEF HeaderKeys, Told, Holds
  <2>4. ip = Spaced(SubSeq(f, 1, e - 1))
    <3>1. ngx_http_get_realip(request) = SubSeq(f, 1, e - 1)
      <4>1. ~(Len(request.realip) > 0) /\ Len(request.forward) > 0
        OBVIOUS
      <4> QED
        BY <4>1 DEF ngx_http_get_realip
    <3>2. /\ HeaderKeys[5] = HTTP_REQUEST_IP
          /\ Told(request)[5] = ngx_http_get_realip(request)
      BY DEF HeaderKeys, Told
    <3>3. Holds(HTTP_REQUEST_IP, Spaced(ngx_http_get_realip(request)))
      BY <2>2, <3>2
    <3> QED
      BY <3>1, <3>3 DEF Holds
  <2> HIDE DEF f, ip, forward
  <2>5. /\ e \in 1..(Len(f) + 1)
        /\ e # Len(f) + 1 => f[e] = ","
        /\ \A o \in 1..(e - 1) : f[o] # ","
    <3>1. Len(f) + 1 \in Nat /\ 1 <= Len(f) + 1
      BY <2>1
    <3>2. /\ e \in 1..(Len(f) + 1)
          /\ e = Len(f) + 1 \/ f[e] = ","
          /\ \A o \in 1..(e - 1) : f[o] # ","
      BY <3>1, FindIs
    <3> HIDE DEF e
    <3> QED
      BY <3>2
  <2> HIDE DEF e
  <2>a. Len(f) \in Nat /\ e \in Nat /\ 1 <= e /\ e <= Len(f) + 1
    <3>1. Len(f) \in Nat
      BY <2>1
    <3>2. e \in 1..(Len(f) + 1)
      BY <2>5
    <3> QED
      BY <3>1, <3>2
  <2>6. /\ Len(SubSeq(f, 1, e - 1)) = e - 1
        /\ DOMAIN SubSeq(f, 1, e - 1) = 1..(e - 1)
        /\ \A p \in 1..(e - 1) : SubSeq(f, 1, e - 1)[p] = f[p]
    BY <2>1, <2>a
  <2>7. /\ DOMAIN ip = 1..(e - 1)
        /\ \A p \in 1..(e - 1) :
             ip[p] = IF f[p] = "tab" THEN "space" ELSE f[p]
        /\ ip = [p \in 1..(e - 1) |-> IF f[p] = "tab" THEN "space" ELSE f[p]]
    BY <2>4, <2>6 DEF Spaced
  <2>8. /\ DOMAIN forward = 1..Len(f)
        /\ \A p \in 1..Len(f) :
             forward[p] = IF f[p] = "tab" THEN "space" ELSE f[p]
        /\ forward = [p \in 1..Len(f) |->
                        IF f[p] = "tab" THEN "space" ELSE f[p]]
    BY <2>1, <2>3 DEF Spaced
  <2>9. Len(ip) = e - 1 /\ Len(forward) = Len(f)
    BY <2>a, <2>7, <2>8
  <2>10. Len(ip) <= Len(forward)
    BY <2>a, <2>9
  <2>11. ip = SubSeq(forward, 1, Len(ip))
    <3> DEFINE Text == Symbols \cup {"space"}
    <3>1. forward \in Seq(Text)
      <4>1. \A p \in 1..Len(f) : f[p] \in Symbols
        BY <2>1
      <4>2. forward \in [1..Len(f) -> Text]
        BY <2>8, <4>1
      <4> QED
        BY <2>1, <4>2
    <3> HIDE DEF Text
    <3>2. SubSeq(forward, 1, e - 1) = [p \in 1..(e - 1) |-> forward[p]]
      BY <2>a, <2>9, <3>1
    <3>3. \A p \in 1..(e - 1) : p \in 1..Len(f)
      BY <2>a
    <3>4. \A p \in 1..(e - 1) : ip[p] = forward[p]
      BY <2>7, <2>8, <3>3
    <3>5. ip = [p \in 1..(e - 1) |-> forward[p]]
      BY <2>7, <3>4
    <3> QED
      BY <2>9, <3>2, <3>5
  <2>12. \A p \in DOMAIN ip : ip[p] # ","
    BY <2>5, <2>7
  <2>13. Len(ip) < Len(forward) => forward[Len(ip) + 1] = ","
    <3>1. Len(ip) + 1 = e
      BY <2>a, <2>9
    <3>2. Len(ip) < Len(forward) => e \in 1..Len(f) /\ e # Len(f) + 1
      BY <2>a, <2>9
    <3>3. Len(ip) < Len(forward) => forward[e] = ","
      BY <2>5, <2>8, <3>2
    <3> QED
      BY <3>1, <3>3
  <2> QED
    BY <2>10, <2>11, <2>12, <2>13 DEF ip, forward
<1> QED
  BY <1>1, BodyInvariance, SaidInvariance, PTL
=============================================================================
