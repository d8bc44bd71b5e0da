-------------------------- MODULE HttpServerProofs --------------------------
(***************************************************************************)
(* The request parser takes requests and nothing else, and the servers     *)
(* answer what was sent, however it was cut: for any input and any number  *)
(* of clients.                                                             *)
(***************************************************************************)
EXTENDS HttpServer, SequenceTheorems, WellFoundedInduction, TLAPS

------------------------------------------------------------------------------
(* Induction over the positions of a sequence.                               *)

LEMMA LeastOf ==
  ASSUME NEW T \in SUBSET Nat, T # {}
  PROVE  \E m \in T : \A n \in T : m <= n
<1> DEFINE R == OpToRel(<, Nat)
<1>1. IsWellFoundedOn(R, Nat)
  BY NatLessThanWellFounded, Zenon
<1>2. \A x, y \in Nat : <<x, y>> \in R <=> x < y
  BY DEF OpToRel
<1> HIDE DEF R
<1>3. PICK m \in T : \A n \in T : <<n, m>> \notin R
  BY <1>1, WFMin
<1>4. \A n \in T : ~(n < m)
  BY <1>2, <1>3
<1>5. QED
  BY <1>4

LEMMA UpTo ==
  ASSUME NEW n \in Nat, NEW S, 0 \in S, \A i \in 0..n - 1 : i \in S => i + 1 \in S
  PROVE  0..n \subseteq S
<1> SUFFICES ASSUME 0..n \ S # {} PROVE FALSE
  OBVIOUS
<1>1. PICK m \in 0..n \ S : \A i \in 0..n \ S : m <= i
  BY LeastOf, 0..n \ S \in SUBSET Nat
<1>2. m # 0 /\ m - 1 \in 0..n - 1 /\ m - 1 \in S
  BY <1>1
<1>3. QED
  BY <1>1, <1>2, m = (m - 1) + 1

------------------------------------------------------------------------------
(* The parser, position by position                                          *)

ParserStates == [at : States, headers : BOOLEAN]

\* What the loop of parse makes of one character.
Step(q, ch) == IF q.at \in {"good", "bad"} THEN q ELSE Consume(q, ch)

Trace(p, s) ==
    LET after[i \in 0..Len(s)] == IF i = 0 THEN p ELSE Step(after[i - 1], s[i])
    IN  after

LEMMA TraceSteps ==
    ASSUME NEW S, NEW s \in Seq(S), NEW p
    PROVE  /\ Trace(p, s)[0] = p
           /\ \A i \in 1..Len(s) : Trace(p, s)[i] = Step(Trace(p, s)[i - 1], s[i])
           /\ After(p, s) = Trace(p, s)[Len(s)]
<1> DEFINE G(n, f) == f = [i \in 0..n |-> IF i = 0 THEN p ELSE Step(f[i - 1], s[i])]
           N == {n \in Nat : \E f : G(n, f)}
<1>1. 0 \in N
  <2>1. G(0, [i \in 0..0 |-> p])
    OBVIOUS
  <2>2. QED
    BY <2>1
<1>2. ASSUME NEW n \in Nat, n \in N PROVE n + 1 \in N
  <2>1. PICK f : G(n, f)
    BY <1>2
  <2> DEFINE g == [i \in 0..n + 1 |-> IF i = n + 1 THEN Step(f[n], s[n + 1]) ELSE f[i]]
  <2>2. g = [i \in 0..n + 1 |-> g[i]]
    OBVIOUS
  <2>3. \A i \in 0..n : g[i] = f[i]
    OBVIOUS
  <2>4. g[n + 1] = Step(f[n], s[n + 1])
    OBVIOUS
  <2> HIDE DEF g
  <2>5. ASSUME NEW i \in 0..n + 1 PROVE g[i] = IF i = 0 THEN p ELSE Step(g[i - 1], s[i])
    <3>1. CASE i = n + 1
      <4>1. i - 1 = n /\ i # 0 /\ g[n] = f[n]
        BY <2>3, <3>1
      <4>2. QED
        BY <2>4, <3>1, <4>1
    <3>2. CASE i # n + 1
      <4>1. i \in 0..n /\ (i # 0 => i - 1 \in 0..n)
        BY <3>2
      <4>2. f[i] = IF i = 0 THEN p ELSE Step(f[i - 1], s[i])
        BY <2>1, <4>1
      <4>3. g[i] = f[i] /\ (i # 0 => g[i - 1] = f[i - 1])
        BY <2>3, <4>1
      <4>4. QED
        BY <4>2, <4>3
    <3>3. QED
      BY <3>1, <3>2
  <2>6. G(n + 1, g)
    BY <2>2, <2>5
  <2>7. QED
    BY <2>6
<1>3. \E f : G(Len(s), f)
  <2>1. Len(s) \in N
    <3> HIDE DEF N
    <3>1. 0..Len(s) \subseteq N
      BY <1>1, <1>2, UpTo
    <3>2. QED
      BY <3>1
  <2>2. QED
    BY <2>1
<1> DEFINE tr == CHOOSE f : G(Len(s), f)
<1>4. G(Len(s), tr)
  BY <1>3
<1>5. Trace(p, s) = tr
  BY DEF Trace
<1>6. After(p, s) = Trace(p, s)[Len(s)]
  BY DEF After, Trace, Step
<1> HIDE DEF tr
<1>7. QED
  BY <1>4, <1>5, <1>6

LEMMA StartType == Start \in ParserStates
BY DEF Start, ParserStates, States, Edges

LEMMA StepType == ASSUME NEW q \in ParserStates, NEW ch PROVE Step(q, ch) \in ParserStates
<1> DEFINE Taken == {e \in Edges : e[1] = q.at /\ ch \in e[2]}
           to == (CHOOSE e \in Taken : TRUE)[3]
<1>1. \A e \in Edges : e[3] \in States
  BY SMTT(30) DEF States, Edges
<1>2. "header_lws" \in States /\ "bad" \in States
  BY DEF States, Edges
<1>3. Taken # {} => to \in States
  <2>1. Taken # {} => (CHOOSE e \in Taken : TRUE) \in Edges
    OBVIOUS
  <2>2. QED
    BY <1>1, <2>1
<1>4. \/ Step(q, ch) = q
      \/ Step(q, ch) = [q EXCEPT !.at = "header_lws"]
      \/ Step(q, ch) = [q EXCEPT !.at = "bad"]
      \/ Taken # {} /\ Step(q, ch) = [at |-> to, headers |-> q.headers \/ to = "header_name"]
  BY DEF Step, Consume
<1> HIDE DEF Taken, to
<1>5. [at |-> to, headers |-> q.headers \/ to = "header_name"] \in ParserStates \/ Taken = {}
  BY <1>3 DEF ParserStates
<1>6. [q EXCEPT !.at = "header_lws"] \in ParserStates /\ [q EXCEPT !.at = "bad"] \in ParserStates
  BY <1>2 DEF ParserStates
<1>7. QED
  BY <1>4, <1>5, <1>6

LEMMA TraceType ==
    ASSUME NEW S, NEW s \in Seq(S), NEW p \in ParserStates
    PROVE  \A i \in 0..Len(s) : Trace(p, s)[i] \in ParserStates
<1> DEFINE N == {i \in 0..Len(s) : Trace(p, s)[i] \in ParserStates}
<1>1. 0 \in N
  BY TraceSteps
<1>2. ASSUME NEW i \in 0..Len(s) - 1, i \in N PROVE i + 1 \in N
  <2>1. i + 1 \in 1..Len(s) /\ (i + 1) - 1 = i
    OBVIOUS
  <2>2. Trace(p, s)[i + 1] = Step(Trace(p, s)[i], s[i + 1])
    BY <2>1, TraceSteps
  <2>3. QED
    BY <1>2, <2>1, <2>2, StepType
<1> HIDE DEF N
<1>3. 0..Len(s) \subseteq N
  BY <1>1, <1>2, UpTo
<1>4. QED
  BY <1>3 DEF N

\* Parsing goes on in the next piece where it was after the last.
LEMMA TracePiece ==
    ASSUME NEW S, NEW s \in Seq(S), NEW p, NEW b \in 0..Len(s), NEW e \in b..Len(s)
    PROVE  LET t == SubSeq(s, b + 1, e) IN
           /\ t \in Seq(S) /\ Len(t) = e - b
           /\ \A i \in 0..e - b : Trace(Trace(p, s)[b], t)[i] = Trace(p, s)[b + i]
<1> DEFINE t == SubSeq(s, b + 1, e)
           n == e - b
           q == Trace(p, s)[b]
           N == {i \in 0..n : Trace(q, t)[i] = Trace(p, s)[b + i]}
<1>1. t \in Seq(S) /\ Len(t) = n /\ n \in Nat /\ \A i \in 1..n : t[i] = s[b + i]
  OBVIOUS
<1> HIDE DEF t
<1>2. 0 \in N
  BY <1>1, TraceSteps
<1>3. ASSUME NEW i \in 0..n - 1, i \in N PROVE i + 1 \in N
  <2>1. /\ i + 1 \in 1..Len(t) /\ (i + 1) - 1 = i
        /\ b + (i + 1) \in 1..Len(s) /\ (b + (i + 1)) - 1 = b + i
    BY <1>1
  <2>2. /\ Trace(q, t)[i + 1] = Step(Trace(q, t)[i], t[i + 1])
        /\ Trace(p, s)[b + (i + 1)] = Step(Trace(p, s)[b + i], s[b + (i + 1)])
    <3> HIDE DEF q
    <3>1. QED
      BY <1>1, <2>1, TraceSteps
  <2>3. t[i + 1] = s[b + (i + 1)] /\ i + 1 \in 0..n
    BY <1>1, <2>1
  <2>4. QED
    BY <1>3, <2>2, <2>3
<1> HIDE DEF N
<1>4. 0..n \subseteq N
  BY <1>1, <1>2, <1>3, UpTo
<1>5. QED
  BY <1>1, <1>4 DEF N, t

------------------------------------------------------------------------------
(* The edges of the automaton                                                *)

\* Where a step goes, by the edge it takes.
LEMMA Deterministic == \A d, f \in Edges : d[1] = f[1] /\ d[2] \cap f[2] # {} => d[3] = f[3]
BY SMTT(60) DEF Edges, Token, Visible, Chars

LEMMA EdgeEnds ==
    \A d \in Edges : /\ d[1] \notin {"good", "bad"}
                     /\ d[1] = "header_line_start" => "SP" \notin d[2] /\ "TAB" \notin d[2]
BY SMTT(60) DEF Edges, Token, Visible, Chars

\* The edges into a state.
LEMMA EdgesInto ==
    \A d \in Edges :
        /\ d[3] \notin {"method_start", "uri_start", "bad"}
        /\ d[3] = "method" => d[1] \in {"method_start", "method"} /\ d[2] = Token
        /\ d[3] = "uri" => \/ d[1] = "method" /\ d[2] = {"SP"}
                           \/ d[1] = "uri_start"
                           \/ d[1] = "uri" /\ d[2] = Visible \ {"SP"}
        /\ d[3] = "http_version_h" => d[1] = "uri" /\ d[2] = {"SP"}
        /\ d[3] = "http_version_t_1" => d[1] = "http_version_h" /\ d[2] = {"H"}
        /\ d[3] = "http_version_t_2" => d[1] = "http_version_t_1" /\ d[2] = {"T"}
        /\ d[3] = "http_version_p" => d[1] = "http_version_t_2" /\ d[2] = {"T"}
        /\ d[3] = "http_version_slash" => d[1] = "http_version_p" /\ d[2] = {"P"}
        /\ d[3] = "http_version_major_start" => d[1] = "http_version_slash" /\ d[2] = {"/"}
        /\ d[3] = "http_version_major" => d[1] \in {"http_version_major_start", "http_version_major"} /\ d[2] = {"digit"}
        /\ d[3] = "http_version_minor_start" => d[1] = "http_version_major" /\ d[2] = {"."}
        /\ d[3] = "http_version_minor" => d[1] \in {"http_version_minor_start", "http_version_minor"} /\ d[2] = {"digit"}
        /\ d[3] = "expecting_newline_1" => d[1] = "http_version_minor" /\ d[2] = {"CR"}
        /\ d[3] = "header_line_start" => d[1] \in {"expecting_newline_1", "expecting_newline_2"} /\ d[2] = {"LF"}
        /\ d[3] = "header_lws" => d[1] = "header_lws" /\ d[2] = {"SP", "TAB"}
        /\ d[3] = "header_name" => d[1] \in {"header_line_start", "header_name"} /\ d[2] = Token
        /\ d[3] = "space_before_header_value" => d[1] = "header_name" /\ d[2] = {":"}
        /\ d[3] = "header_value" => \/ d[1] = "space_before_header_value" /\ d[2] = {"SP"}
                                    \/ d[1] = "header_lws" /\ d[2] = Visible \ {"SP"}
                                    \/ d[1] = "header_value" /\ d[2] = Visible
        /\ d[3] = "expecting_newline_2" => d[1] \in {"header_lws", "header_value"} /\ d[2] = {"CR"}
        /\ d[3] = "expecting_newline_3" => d[1] = "header_line_start" /\ d[2] = {"CR"}
        /\ d[3] = "good" => d[1] = "expecting_newline_3" /\ d[2] = {"LF"}
BY SMTT(60) DEF Edges

LEMMA StepAlong ==
    ASSUME NEW q \in ParserStates, NEW d \in Edges, d[1] = q.at, NEW ch \in d[2]
    PROVE  Step(q, ch) = [at |-> d[3], headers |-> q.headers \/ d[3] = "header_name"]
<1> DEFINE Taken == {e \in Edges : e[1] = q.at /\ ch \in e[2]}
           to == (CHOOSE e \in Taken : TRUE)[3]
<1>1. d \in Taken
  OBVIOUS
<1>2. (CHOOSE e \in Taken : TRUE) \in Taken
  BY <1>1
<1>3. to = d[3]
  BY <1>2, Deterministic
<1>4. q.at \notin {"good", "bad"} /\ ~(q.at = "header_line_start" /\ ch \in {"SP", "TAB"})
  BY EdgeEnds
<1>5. Consume(q, ch) = [at |-> to, headers |-> q.headers \/ to = "header_name"]
  BY <1>1, <1>4 DEF Consume
<1> HIDE DEF Taken, to
<1>6. QED
  BY <1>3, <1>4, <1>5 DEF Step

LEMMA StepBlank ==
    ASSUME NEW q \in ParserStates, q.at = "header_line_start", q.headers, NEW ch \in {"SP", "TAB"}
    PROVE  Step(q, ch).at = "header_lws" /\ Step(q, ch).headers
BY DEF Step, Consume, ParserStates

\* Where a step came from.
LEMMA StepFrom ==
    ASSUME NEW q \in ParserStates, NEW ch, Step(q, ch).at # "bad", q.at # "good"
    PROVE  \/ /\ q.at = "header_line_start" /\ ch \in {"SP", "TAB"} /\ q.headers
              /\ Step(q, ch).at = "header_lws" /\ Step(q, ch).headers
           \/ \E d \in Edges : /\ d[1] = q.at /\ ch \in d[2]
                               /\ Step(q, ch) = [at |-> d[3], headers |-> q.headers \/ d[3] = "header_name"]
<1> DEFINE Blank == q.at = "header_line_start" /\ ch \in {"SP", "TAB"} /\ q.headers
<1>1. CASE Blank
  BY <1>1, StepBlank
<1>2. CASE ~Blank
  <2>1. q.at \notin {"good", "bad"}
    BY DEF Step
  <2>2. {e \in Edges : e[1] = q.at /\ ch \in e[2]} # {}
    BY <1>2, <2>1 DEF Step, Consume, ParserStates
  <2>3. QED
    BY <2>2, StepAlong
<1>3. QED
  BY <1>1, <1>2

------------------------------------------------------------------------------
(* What the parser has seen, from its state                                  *)

At(s, i) == Trace(Start, s)[i].at
Headers(s, i) == Trace(Start, s)[i].headers

LEMMA AtStep ==
    ASSUME NEW S, NEW s \in Seq(S), NEW i \in 1..Len(s)
    PROVE  /\ Trace(Start, s)[i - 1] \in ParserStates
           /\ Trace(Start, s)[i] \in ParserStates
           /\ Trace(Start, s)[i] = Step(Trace(Start, s)[i - 1], s[i])
<1>1. i - 1 \in 0..Len(s) /\ i \in 0..Len(s)
  OBVIOUS
<1>2. QED
  BY <1>1, TraceSteps, TraceType, StartType

LEMMA AtStart == ASSUME NEW S, NEW s \in Seq(S) PROVE At(s, 0) = "method_start" /\ ~Headers(s, 0)
BY TraceSteps DEF At, Headers, Start

\* The method and the target of a request line: blanks at a and at j.
Target(s, a, j) ==
    /\ 1 < a /\ a < j /\ s[a] = "SP" /\ s[j] = "SP"
    /\ Within(s, 1, a - 1, Token) /\ Within(s, a + 1, j - 1, Visible \ {"SP"})

Http(s, j) == \A k \in 1..5 : s[j + k] = <<"H", "T", "T", "P", "/">>[k]

FirstStates == {"method_start", "method", "uri_start", "uri", "http_version_h", "http_version_t_1", "http_version_t_2",
                "http_version_p", "http_version_slash", "http_version_major_start", "http_version_major",
                "http_version_minor_start", "http_version_minor", "expecting_newline_1"}

\* In the first line; q is the parser after i characters.
FirstLineInv(s, i, q) ==
    /\ q.at \in FirstStates => ~q.headers
    /\ q.at = "method_start" => i = 0
    /\ q.at = "method" => i >= 1 /\ Within(s, 1, i, Token)
    /\ q.at # "uri_start"
    /\ q.at = "uri" => \E a \in 1..i : /\ 1 < a /\ s[a] = "SP" /\ Within(s, 1, a - 1, Token)
                                       /\ Within(s, a + 1, i, Visible \ {"SP"})
    /\ q.at = "http_version_h" => \E a \in 1..i : Target(s, a, i)
    /\ q.at = "http_version_t_1" => \E a \in 1..i, j \in 1..i : j = i - 1 /\ Target(s, a, j) /\ s[j + 1] = "H"
    /\ q.at = "http_version_t_2" => \E a \in 1..i, j \in 1..i : j = i - 2 /\ Target(s, a, j) /\ s[j + 1] = "H" /\ s[j + 2] = "T"
    /\ q.at = "http_version_p" => \E a \in 1..i, j \in 1..i :
         j = i - 3 /\ Target(s, a, j) /\ s[j + 1] = "H" /\ s[j + 2] = "T" /\ s[j + 3] = "T"
    /\ q.at = "http_version_slash" => \E a \in 1..i, j \in 1..i :
         j = i - 4 /\ Target(s, a, j) /\ s[j + 1] = "H" /\ s[j + 2] = "T" /\ s[j + 3] = "T" /\ s[j + 4] = "P"
    /\ q.at = "http_version_major_start" => \E a \in 1..i, j \in 1..i : j = i - 5 /\ Target(s, a, j) /\ Http(s, j)
    /\ q.at = "http_version_major" => \E a \in 1..i, j \in 1..i :
         i >= j + 6 /\ Target(s, a, j) /\ Http(s, j) /\ Within(s, j + 6, i, {"digit"})
    /\ q.at = "http_version_minor_start" => \E a \in 1..i, j \in 1..i :
         i >= j + 7 /\ Target(s, a, j) /\ Http(s, j) /\ Within(s, j + 6, i - 1, {"digit"}) /\ s[i] = "."
    /\ q.at = "http_version_minor" => RequestLine(s, i)
    /\ q.at = "expecting_newline_1" => i >= 1 /\ s[i] = "CR" /\ RequestLine(s, i - 1)

LEMMA WithinMore ==
    ASSUME NEW s, NEW b \in Nat, NEW i \in Nat, NEW T, Within(s, b, i - 1, T), s[i] \in T
    PROVE  Within(s, b, i, T)
BY DEF Within

LEMMA RequestLineOf ==
    ASSUME NEW s, NEW n \in Nat
    PROVE  RequestLine(s, n) <=>
             \E a, j \in 1..n : /\ Target(s, a, j)
                                /\ \E d \in j + 7..n - 1 :
                                     /\ Http(s, j) /\ s[d] = "."
                                     /\ Within(s, j + 6, d - 1, {"digit"}) /\ Within(s, d + 1, n, {"digit"})
BY Zenon DEF RequestLine, Target, Http

LEMMA FirstLineStep ==
    ASSUME NEW s, NEW i \in Nat \ {0}, NEW q \in ParserStates, FirstLineInv(s, i - 1, q)
    PROVE  FirstLineInv(s, i, Step(q, s[i]))
<1> DEFINE r == Step(q, s[i])
<1>1. CASE r.at \notin FirstStates
  BY <1>1 DEF FirstLineInv, FirstStates
<1>2. CASE r.at \in FirstStates
  <2>1. q.at # "good" /\ r.at # "bad" /\ r.at # "header_lws"
    <3>1. q.at = "good" => r.at = "good"
      BY DEF Step
    <3>2. QED
      BY <1>2, <3>1 DEF FirstStates
  <2>2. PICK way \in Edges :
          /\ way[1] = q.at /\ s[i] \in way[2]
          /\ r = [at |-> way[3], headers |-> q.headers \/ way[3] = "header_name"]
    BY <2>1, StepFrom
  <2>e. way[1] = q.at /\ s[i] \in way[2] /\ r.at = way[3]
    BY <2>2
  <2>f. q.at \in FirstStates /\ way[3] # "header_name"
    BY <1>2, <2>e, EdgesInto DEF FirstStates
  <2>g. r.headers = (q.headers \/ way[3] = "header_name")
    BY <2>2
  <2>3. q.at \in FirstStates /\ ~r.headers
    <3>1. ~q.headers
      BY <2>f DEF FirstLineInv
    <3> HIDE DEF r
    <3>2. QED
      BY <2>f, <2>g, <3>1, Zenon
  <2> HIDE DEF r
  <2>4. r.at # "method_start" /\ r.at # "uri_start" /\ q.at # "uri_start"
    BY <2>e, EdgesInto DEF FirstLineInv
  <2>5. ASSUME r.at = "method" PROVE i >= 1 /\ Within(s, 1, i, Token)
    <3>1. q.at \in {"method_start", "method"} /\ s[i] \in Token
      BY <2>4, <2>e, <2>5, EdgesInto
    <3>2. Within(s, 1, i - 1, Token)
      BY <3>1 DEF FirstLineInv, Within
    <3>3. QED
      BY <3>1, <3>2, WithinMore
  <2>6. ASSUME r.at = "uri"
        PROVE  \E a \in 1..i : /\ 1 < a /\ s[a] = "SP" /\ Within(s, 1, a - 1, Token)
                               /\ Within(s, a + 1, i, Visible \ {"SP"})
    <3>1. (q.at = "method" /\ s[i] = "SP") \/ (q.at = "uri" /\ s[i] \in Visible \ {"SP"})
      BY <2>4, <2>e, <2>6, EdgesInto
    <3>2. CASE q.at = "method" /\ s[i] = "SP"
      <4>1. i - 1 >= 1 /\ Within(s, 1, i - 1, Token) /\ Within(s, i + 1, i, Visible \ {"SP"})
        BY <3>2 DEF FirstLineInv, Within
      <4>2. QED
        BY <3>2, <4>1
    <3>3. CASE q.at = "uri" /\ s[i] \in Visible \ {"SP"}
      <4>1. PICK a \in 1..i - 1 : /\ 1 < a /\ s[a] = "SP" /\ Within(s, 1, a - 1, Token)
                                  /\ Within(s, a + 1, i - 1, Visible \ {"SP"})
        BY <3>3 DEF FirstLineInv
      <4>2. Within(s, a + 1, i, Visible \ {"SP"})
        BY <3>3, <4>1, WithinMore
      <4>3. QED
        BY <4>1, <4>2
    <3>4. QED
      BY <3>1, <3>2, <3>3
  <2>7. ASSUME r.at = "http_version_h" PROVE \E a \in 1..i : Target(s, a, i)
    <3>1. q.at = "uri" /\ s[i] = "SP"
      BY <2>4, <2>e, <2>7, EdgesInto
    <3>2. QED
      BY <3>1 DEF FirstLineInv, Target
  <2>8. ASSUME r.at = "http_version_t_1"
        PROVE  \E a \in 1..i, j \in 1..i : j = i - 1 /\ Target(s, a, j) /\ s[j + 1] = "H"
    <3>1. q.at = "http_version_h" /\ s[i] = "H"
      BY <2>4, <2>e, <2>8, EdgesInto
    <3>2. PICK a \in 1..i - 1 : Target(s, a, i - 1)
      BY <3>1 DEF FirstLineInv
    <3>3. i - 1 \in 1..i /\ a \in 1..i /\ (i - 1) + 1 = i
      BY <3>2
    <3>4. QED
      BY <3>1, <3>2, <3>3
  <2>9. ASSUME r.at = "http_version_t_2"
        PROVE  \E a \in 1..i, j \in 1..i : j = i - 2 /\ Target(s, a, j) /\ s[j + 1] = "H" /\ s[j + 2] = "T"
    <3>1. q.at = "http_version_t_1" /\ s[i] = "T"
      BY <2>4, <2>e, <2>9, EdgesInto
    <3>2. PICK a \in 1..i - 1, j \in 1..i - 1 : j = (i - 1) - 1 /\ Target(s, a, j) /\ s[j + 1] = "H"
      BY <3>1 DEF FirstLineInv
    <3>3. j = i - 2 /\ j \in 1..i /\ a \in 1..i /\ j + 2 = i
      BY <3>2
    <3>4. QED
      BY <3>1, <3>2, <3>3
  <2>10. ASSUME r.at = "http_version_p"
         PROVE  \E a \in 1..i, j \in 1..i :
                  j = i - 3 /\ Target(s, a, j) /\ s[j + 1] = "H" /\ s[j + 2] = "T" /\ s[j + 3] = "T"
    <3>1. q.at = "http_version_t_2" /\ s[i] = "T"
      BY <2>4, <2>e, <2>10, EdgesInto
    <3>2. PICK a \in 1..i - 1, j \in 1..i - 1 : j = (i - 1) - 2 /\ Target(s, a, j) /\ s[j + 1] = "H" /\ s[j + 2] = "T"
      BY <3>1 DEF FirstLineInv
    <3>3. j = i - 3 /\ j \in 1..i /\ a \in 1..i /\ j + 3 = i
      BY <3>2
    <3>4. QED
      BY <3>1, <3>2, <3>3
  <2>11. ASSUME r.at = "http_version_slash"
         PROVE  \E a \in 1..i, j \in 1..i :
                  /\ j = i - 4 /\ Target(s, a, j)
                  /\ s[j + 1] = "H" /\ s[j + 2] = "T" /\ s[j + 3] = "T" /\ s[j + 4] = "P"
    <3>1. q.at = "http_version_p" /\ s[i] = "P"
      BY <2>4, <2>e, <2>11, EdgesInto
    <3>2. PICK a \in 1..i - 1, j \in 1..i - 1 :
            j = (i - 1) - 3 /\ Target(s, a, j) /\ s[j + 1] = "H" /\ s[j + 2] = "T" /\ s[j + 3] = "T"
      BY <3>1 DEF FirstLineInv
    <3>3. j = i - 4 /\ j \in 1..i /\ a \in 1..i /\ j + 4 = i
      BY <3>2
    <3>4. QED
      BY <3>1, <3>2, <3>3
  <2>12. ASSUME r.at = "http_version_major_start"
         PROVE  \E a \in 1..i, j \in 1..i : j = i - 5 /\ Target(s, a, j) /\ Http(s, j)
    <3>1. q.at = "http_version_slash" /\ s[i] = "/"
      BY <2>4, <2>e, <2>12, EdgesInto
    <3>2. PICK a \in 1..i - 1, j \in 1..i - 1 :
            /\ j = (i - 1) - 4 /\ Target(s, a, j)
            /\ s[j + 1] = "H" /\ s[j + 2] = "T" /\ s[j + 3] = "T" /\ s[j + 4] = "P"
      BY <3>1 DEF FirstLineInv
    <3>3. j = i - 5 /\ j \in 1..i /\ a \in 1..i /\ j + 5 = i
      BY <3>2
    <3>4. Http(s, j)
      BY <3>1, <3>2, <3>3 DEF Http
    <3>5. QED
      BY <3>2, <3>3, <3>4
  <2>13. ASSUME r.at = "http_version_major"
         PROVE  \E a \in 1..i, j \in 1..i :
                  i >= j + 6 /\ Target(s, a, j) /\ Http(s, j) /\ Within(s, j + 6, i, {"digit"})
    <3>1. q.at \in {"http_version_major_start", "http_version_major"} /\ s[i] = "digit"
      BY <2>4, <2>e, <2>13, EdgesInto
    <3>2. PICK a \in 1..i - 1, j \in 1..i - 1 :
            i - 1 >= j + 5 /\ Target(s, a, j) /\ Http(s, j) /\ Within(s, j + 6, i - 1, {"digit"})
      BY <3>1 DEF FirstLineInv, Within
    <3>3. Within(s, j + 6, i, {"digit"}) /\ i >= j + 6 /\ a \in 1..i /\ j \in 1..i
      BY <3>1, <3>2, WithinMore
    <3>4. QED
      BY <3>2, <3>3
  <2>14. ASSUME r.at = "http_version_minor_start"
         PROVE  \E a \in 1..i, j \in 1..i :
                  i >= j + 7 /\ Target(s, a, j) /\ Http(s, j) /\ Within(s, j + 6, i - 1, {"digit"}) /\ s[i] = "."
    <3>1. q.at = "http_version_major" /\ s[i] = "."
      BY <2>4, <2>e, <2>14, EdgesInto
    <3>2. PICK a \in 1..i - 1, j \in 1..i - 1 :
            i - 1 >= j + 6 /\ Target(s, a, j) /\ Http(s, j) /\ Within(s, j + 6, i - 1, {"digit"})
      BY <3>1 DEF FirstLineInv
    <3>3. i >= j + 7 /\ a \in 1..i /\ j \in 1..i
      BY <3>2
    <3>4. QED
      BY <3>1, <3>2, <3>3
  <2>15. ASSUME r.at = "http_version_minor" PROVE RequestLine(s, i)
    <3>1. q.at \in {"http_version_minor_start", "http_version_minor"} /\ s[i] = "digit"
      BY <2>4, <2>e, <2>15, EdgesInto
    <3>p. PICK a \in 1..i - 1, j \in 1..i - 1 :
            /\ Target(s, a, j) /\ Http(s, j)
            /\ \E d \in j + 7..i - 1 :
                 s[d] = "." /\ Within(s, j + 6, d - 1, {"digit"}) /\ Within(s, d + 1, i - 1, {"digit"})
      <4>1. CASE q.at = "http_version_minor_start"
        <5>1. PICK a \in 1..i - 1, j \in 1..i - 1 :
                i - 1 >= j + 7 /\ Target(s, a, j) /\ Http(s, j) /\ Within(s, j + 6, (i - 1) - 1, {"digit"}) /\ s[i - 1] = "."
          BY <4>1 DEF FirstLineInv
        <5>2. i - 1 \in j + 7..i - 1 /\ Within(s, (i - 1) + 1, i - 1, {"digit"})
          BY <5>1 DEF Within
        <5>3. QED
          BY <5>1, <5>2
      <4>2. CASE q.at = "http_version_minor"
        <5>1. RequestLine(s, i - 1) /\ i - 1 \in Nat
          BY <4>2 DEF FirstLineInv
        <5>2. PICK a \in 1..i - 1, j \in 1..i - 1 :
                /\ Target(s, a, j)
                /\ \E d \in j + 7..(i - 1) - 1 :
                     /\ Http(s, j) /\ s[d] = "."
                     /\ Within(s, j + 6, d - 1, {"digit"}) /\ Within(s, d + 1, i - 1, {"digit"})
          BY <5>1, RequestLineOf
        <5>3. \A d \in j + 7..(i - 1) - 1 : d \in j + 7..i - 1
          OBVIOUS
        <5>4. QED
          BY <5>2, <5>3
      <4>3. QED
        BY <3>1, <4>1, <4>2
    <3>2. PICK d \in j + 7..i - 1 :
            s[d] = "." /\ Within(s, j + 6, d - 1, {"digit"}) /\ Within(s, d + 1, i - 1, {"digit"})
      BY <3>p
    <3>3. Within(s, d + 1, i, {"digit"}) /\ a \in 1..i /\ j \in 1..i /\ d \in j + 7..i - 1
      BY <3>1, <3>2, WithinMore
    <3>4. QED
      BY <3>p, <3>2, <3>3, RequestLineOf
  <2>16. ASSUME r.at = "expecting_newline_1" PROVE i >= 1 /\ s[i] = "CR" /\ RequestLine(s, i - 1)
    <3>1. q.at = "http_version_minor" /\ s[i] = "CR"
      BY <2>4, <2>e, <2>16, EdgesInto
    <3>2. QED
      BY <3>1 DEF FirstLineInv
  <2>17. QED
    BY <2>3, <2>4, <2>5, <2>6, <2>7, <2>8, <2>9, <2>10, <2>11, <2>12, <2>13, <2>14, <2>15, <2>16
    DEF FirstLineInv, r
<1>3. QED
  BY <1>1, <1>2

\* The characters from b to e go on after the lines before b.
Follows(s, b, e) == HeaderLine(s, b, e) \/ (Headers(s, b - 1) /\ Continuation(s, b, e))

AtLine(s, b) == At(s, b - 1) = "header_line_start"

\* After the first line; q is the parser after i characters.
HeaderInv(s, i, q) ==
    /\ q.at \in {"header_name", "space_before_header_value", "header_lws", "header_value", "expecting_newline_2"} =>
         q.headers
    /\ q.at = "header_line_start" =>
         /\ i >= 2 /\ s[i - 1] = "CR" /\ s[i] = "LF"
         /\ \/ ~q.headers /\ RequestLine(s, i - 2)
            \/ q.headers /\ \E b \in 1..i : AtLine(s, b) /\ Follows(s, b, i - 2)
    /\ q.at = "header_name" => \E b \in 1..i : AtLine(s, b) /\ Within(s, b, i, Token)
    /\ q.at = "space_before_header_value" =>
         \E b \in 1..i - 1 : AtLine(s, b) /\ Within(s, b, i - 1, Token) /\ s[i] = ":"
    /\ q.at = "header_lws" =>
         \E b \in 1..i : AtLine(s, b) /\ Headers(s, b - 1) /\ Within(s, b, i, {"SP", "TAB"})
    /\ q.at = "header_value" => \E b \in 1..i : AtLine(s, b) /\ Follows(s, b, i)
    /\ q.at = "expecting_newline_2" => s[i] = "CR" /\ \E b \in 1..i : AtLine(s, b) /\ Follows(s, b, i - 1)
    /\ q.at = "expecting_newline_3" => AtLine(s, i) /\ s[i] = "CR"

LEMMA FollowsMore ==
    ASSUME NEW s, NEW b \in Nat, NEW i \in Nat, Follows(s, b, i - 1), s[i] \in Visible
    PROVE  Follows(s, b, i)
<1>1. ASSUME HeaderLine(s, b, i - 1) PROVE HeaderLine(s, b, i)
  <2>1. PICK c \in b + 1..(i - 1) - 1 : /\ Within(s, b, c - 1, Token) /\ s[c] = ":" /\ s[c + 1] = "SP"
                                        /\ Within(s, c + 2, i - 1, Visible)
    BY <1>1 DEF HeaderLine
  <2>2. Within(s, c + 2, i, Visible) /\ c \in b + 1..i - 1
    BY <2>1, WithinMore
  <2>3. QED
    BY <2>1, <2>2 DEF HeaderLine
<1>2. ASSUME Continuation(s, b, i - 1) PROVE Continuation(s, b, i)
  <2>1. PICK c \in b..i - 1 : Within(s, b, c, {"SP", "TAB"}) /\ Within(s, c + 1, i - 1, Visible)
    BY <1>2 DEF Continuation
  <2>2. Within(s, c + 1, i, Visible) /\ c \in b..i
    BY <2>1, WithinMore
  <2>3. QED
    BY <2>1, <2>2 DEF Continuation
<1>3. QED
  BY <1>1, <1>2 DEF Follows

LEMMA HeaderStep ==
    ASSUME NEW S, NEW s \in Seq(S), NEW i \in 1..Len(s),
           FirstLineInv(s, i - 1, Trace(Start, s)[i - 1]), HeaderInv(s, i - 1, Trace(Start, s)[i - 1])
    PROVE  HeaderInv(s, i, Trace(Start, s)[i])
<1>q. PICK q : q = Trace(Start, s)[i - 1]
  OBVIOUS
<1>r. PICK r : r = Trace(Start, s)[i]
  OBVIOUS
<1>1. /\ q \in ParserStates /\ r = Step(q, s[i]) /\ i \in Nat /\ i - 1 \in Nat
      /\ FirstLineInv(s, i - 1, q) /\ HeaderInv(s, i - 1, q)
  BY <1>q, <1>r, AtStep
<1>2. At(s, i - 1) = q.at /\ Headers(s, i - 1) = q.headers
  BY <1>q DEF At, Headers
<1> DEFINE Later == {"header_line_start", "header_name", "space_before_header_value", "header_lws", "header_value",
                     "expecting_newline_2", "expecting_newline_3"}
<1> SUFFICES HeaderInv(s, i, r)
  BY <1>r
<1>3. CASE r.at \notin Later
  BY <1>3 DEF HeaderInv
<1>4. CASE r.at \in Later
  <2>1. q.at # "good" /\ r.at # "bad"
    BY <1>1, <1>4 DEF Step
  <2>2. \/ q.at = "header_line_start" /\ s[i] \in {"SP", "TAB"} /\ q.headers /\ r.at = "header_lws" /\ r.headers
        \/ \E d \in Edges : /\ d[1] = q.at /\ s[i] \in d[2]
                            /\ r = [at |-> d[3], headers |-> q.headers \/ d[3] = "header_name"]
    BY <1>1, <2>1, StepFrom
  <2>3. CASE q.at = "header_line_start" /\ s[i] \in {"SP", "TAB"} /\ q.headers /\ r.at = "header_lws" /\ r.headers
    <3>1. AtLine(s, i) /\ Headers(s, i - 1) /\ Within(s, i, i, {"SP", "TAB"})
      <4>1. Headers(s, i - 1)
        BY <1>2, <2>3, Zenon
      <4>2. AtLine(s, i)
        BY <1>2, <2>3 DEF AtLine
      <4>3. Within(s, i, i, {"SP", "TAB"})
        BY <1>1, <2>3 DEF Within
      <4>4. QED
        BY <4>1, <4>2, <4>3
    <3>2. QED
      BY <2>3, <3>1 DEF HeaderInv
  <2>4. ASSUME NEW d \in Edges, d[1] = q.at, s[i] \in d[2],
               r = [at |-> d[3], headers |-> q.headers \/ d[3] = "header_name"]
        PROVE  HeaderInv(s, i, r)
    <3>1. r.at = d[3] /\ r.headers = (q.headers \/ d[3] = "header_name")
      BY <2>4
    <3>2. CASE r.at = "header_line_start"
      <4>1. q.at \in {"expecting_newline_1", "expecting_newline_2"} /\ s[i] = "LF" /\ d[3] # "header_name"
        BY <2>4, <3>1, <3>2, EdgesInto
      <4>2. (i - 1) - 1 = i - 2 /\ \A b \in 1..i - 1 : b \in 1..i
        BY <1>1
      <4>3. CASE q.at = "expecting_newline_1"
        <5>1. ~q.headers /\ i - 1 >= 1 /\ s[i - 1] = "CR" /\ RequestLine(s, i - 2)
          BY <1>1, <4>2, <4>3 DEF FirstLineInv, FirstStates
        <5>2. ~r.headers
          BY <3>1, <4>1, <5>1, Zenon
        <5>3. i >= 2
          BY <5>1, <1>1
        <5>4. QED
          BY <3>2, <4>1, <5>1, <5>2, <5>3 DEF HeaderInv
      <4>4. CASE q.at = "expecting_newline_2"
        <5>1. q.headers /\ s[i - 1] = "CR" /\ \E b \in 1..i - 1 : AtLine(s, b) /\ Follows(s, b, i - 2)
          BY <1>1, <4>2, <4>4 DEF HeaderInv
        <5>2. r.headers
          BY <3>1, <5>1, Zenon
        <5>3. \E b \in 1..i : AtLine(s, b) /\ Follows(s, b, i - 2)
          BY <4>2, <5>1
        <5>4. i >= 2
          BY <5>1, <1>1
        <5>5. QED
          BY <3>2, <4>1, <5>1, <5>2, <5>3, <5>4 DEF HeaderInv
      <4>5. QED
        BY <4>1, <4>3, <4>4
    <3>3. CASE r.at = "header_name"
      <4>1. r.headers /\ q.at \in {"header_line_start", "header_name"} /\ s[i] \in Token
        BY <2>4, <3>1, <3>3, EdgesInto
      <4>2. \E b \in 1..i : AtLine(s, b) /\ Within(s, b, i, Token)
        <5>1. CASE q.at = "header_line_start"
          BY <1>1, <1>2, <4>1, <5>1 DEF AtLine, Within
        <5>2. CASE q.at = "header_name"
          <6>1. PICK b \in 1..i - 1 : AtLine(s, b) /\ Within(s, b, i - 1, Token)
            BY <1>1, <5>2 DEF HeaderInv
          <6>2. b \in 1..i /\ Within(s, b, i, Token)
            BY <1>1, <4>1, <6>1, WithinMore
          <6>3. QED
            BY <6>1, <6>2
        <5>3. QED
          BY <4>1, <5>1, <5>2
      <4>3. QED
        BY <3>3, <4>1, <4>2 DEF HeaderInv
    <3>4. CASE r.at = "space_before_header_value"
      <4>1. q.at = "header_name" /\ s[i] = ":"
        BY <2>4, <3>1, <3>4, EdgesInto
      <4>2. q.headers /\ \E b \in 1..i - 1 : AtLine(s, b) /\ Within(s, b, i - 1, Token)
        BY <1>1, <4>1 DEF HeaderInv
      <4>3. r.headers
        BY <3>1, <4>2, Zenon
      <4>4. QED
        BY <3>4, <4>1, <4>2, <4>3 DEF HeaderInv
    <3>5. CASE r.at = "header_lws"
      <4>1. q.at = "header_lws" /\ s[i] \in {"SP", "TAB"}
        BY <2>4, <3>1, <3>5, EdgesInto
      <4>2. q.headers /\ \E b \in 1..i - 1 : AtLine(s, b) /\ Headers(s, b - 1) /\ Within(s, b, i - 1, {"SP", "TAB"})
        BY <1>1, <4>1 DEF HeaderInv
      <4>3. PICK b \in 1..i - 1 : AtLine(s, b) /\ Headers(s, b - 1) /\ Within(s, b, i - 1, {"SP", "TAB"})
        BY <4>2
      <4>4. b \in 1..i /\ Within(s, b, i, {"SP", "TAB"})
        BY <1>1, <4>1, <4>3, WithinMore
      <4>5. r.headers
        BY <3>1, <4>2, Zenon
      <4>6. QED
        BY <3>5, <4>3, <4>4, <4>5 DEF HeaderInv
    <3>6. CASE r.at = "header_value"
      <4>1. \/ q.at = "space_before_header_value" /\ s[i] = "SP"
            \/ q.at = "header_lws" /\ s[i] \in Visible \ {"SP"}
            \/ q.at = "header_value" /\ s[i] \in Visible
        BY <2>4, <3>1, <3>6, EdgesInto
      <4>2. q.headers
        BY <1>1, <4>1 DEF HeaderInv
      <4>3. r.headers
        BY <3>1, <4>2, Zenon
      <4>4. CASE q.at = "space_before_header_value" /\ s[i] = "SP"
        <5>1. PICK b \in 1..(i - 1) - 1 : AtLine(s, b) /\ Within(s, b, (i - 1) - 1, Token) /\ s[i - 1] = ":"
          BY <1>1, <4>4 DEF HeaderInv
        <5>2. i - 1 \in b + 1..i - 1 /\ (i - 1) + 1 = i /\ Within(s, (i - 1) + 2, i, Visible) /\ b \in 1..i
          BY <1>1, <5>1 DEF Within
        <5>3. HeaderLine(s, b, i)
          BY <4>4, <5>1, <5>2 DEF HeaderLine
        <5>4. QED
          BY <3>6, <4>3, <5>1, <5>2, <5>3 DEF HeaderInv, Follows
      <4>5. CASE q.at = "header_lws" /\ s[i] \in Visible \ {"SP"}
        <5>1. PICK b \in 1..i - 1 : AtLine(s, b) /\ Headers(s, b - 1) /\ Within(s, b, i - 1, {"SP", "TAB"})
          BY <1>1, <4>5 DEF HeaderInv
        <5>2. i - 1 \in b..i /\ b \in 1..i /\ Within(s, (i - 1) + 1, i, Visible)
          BY <1>1, <4>5, <5>1 DEF Within
        <5>3. Continuation(s, b, i)
          BY <5>1, <5>2 DEF Continuation
        <5>4. QED
          BY <3>6, <4>3, <5>1, <5>2, <5>3 DEF HeaderInv, Follows
      <4>6. CASE q.at = "header_value" /\ s[i] \in Visible
        <5>1. PICK b \in 1..i - 1 : AtLine(s, b) /\ Follows(s, b, i - 1)
          BY <1>1, <4>6 DEF HeaderInv
        <5>2. b \in 1..i /\ Follows(s, b, i)
          BY <1>1, <4>6, <5>1, FollowsMore
        <5>3. QED
          BY <3>6, <4>3, <5>1, <5>2 DEF HeaderInv
      <4>7. QED
        BY <4>1, <4>4, <4>5, <4>6
    <3>7. CASE r.at = "expecting_newline_2"
      <4>1. q.at \in {"header_lws", "header_value"} /\ s[i] = "CR"
        BY <2>4, <3>1, <3>7, EdgesInto
      <4>2. q.headers
        BY <1>1, <4>1 DEF HeaderInv
      <4>3. r.headers
        BY <3>1, <4>2, Zenon
      <4>4. PICK b \in 1..i - 1 : AtLine(s, b) /\ Follows(s, b, i - 1)
        <5>1. CASE q.at = "header_lws"
          <6>1. PICK b \in 1..i - 1 : AtLine(s, b) /\ Headers(s, b - 1) /\ Within(s, b, i - 1, {"SP", "TAB"})
            BY <1>1, <5>1 DEF HeaderInv
          <6>2. i - 1 \in b..i - 1 /\ Within(s, (i - 1) + 1, i - 1, Visible)
            BY <1>1, <6>1 DEF Within
          <6>3. Continuation(s, b, i - 1)
            BY <6>1, <6>2 DEF Continuation
          <6>4. QED
            BY <6>1, <6>3 DEF Follows
        <5>2. CASE q.at = "header_value"
          BY <1>1, <5>2 DEF HeaderInv
        <5>3. QED
          BY <4>1, <5>1, <5>2
      <4>5. b \in 1..i
        BY <1>1, <4>4
      <4>6. QED
        BY <3>7, <4>1, <4>3, <4>4, <4>5 DEF HeaderInv
    <3>8. CASE r.at = "expecting_newline_3"
      <4>1. q.at = "header_line_start" /\ s[i] = "CR"
        BY <2>4, <3>1, <3>8, EdgesInto
      <4>2. AtLine(s, i)
        BY <1>2, <4>1 DEF AtLine
      <4>3. QED
        BY <3>8, <4>1, <4>2 DEF HeaderInv
    <3>9. QED
      BY <1>4, <3>2, <3>3, <3>4, <3>5, <3>6, <3>7, <3>8
  <2>5. QED
    BY <2>2, <2>3, <2>4
<1>5. QED
  BY <1>3, <1>4

\* What is known of the parser after any number of characters.
LEMMA Forward ==
    ASSUME NEW S, NEW s \in Seq(S)
    PROVE  \A i \in 0..Len(s) : FirstLineInv(s, i, Trace(Start, s)[i]) /\ HeaderInv(s, i, Trace(Start, s)[i])
<1> DEFINE N == {i \in 0..Len(s) : FirstLineInv(s, i, Trace(Start, s)[i]) /\ HeaderInv(s, i, Trace(Start, s)[i])}
<1>1. 0 \in N
  <2>1. Trace(Start, s)[0].at = "method_start" /\ ~Trace(Start, s)[0].headers
    BY AtStart DEF At, Headers
  <2>2. FirstLineInv(s, 0, Trace(Start, s)[0]) /\ HeaderInv(s, 0, Trace(Start, s)[0])
    BY <2>1 DEF FirstLineInv, HeaderInv
  <2>3. QED
    BY <2>2
<1>2. ASSUME NEW i \in 0..Len(s) - 1, i \in N PROVE i + 1 \in N
  <2>1. i + 1 \in 1..Len(s) /\ (i + 1) - 1 = i /\ i + 1 \in Nat \ {0} /\ i + 1 \in 0..Len(s)
    OBVIOUS
  <2>2. /\ Trace(Start, s)[i] \in ParserStates
        /\ Trace(Start, s)[i + 1] = Step(Trace(Start, s)[i], s[i + 1])
    BY <2>1, AtStep
  <2>3. FirstLineInv(s, i, Trace(Start, s)[i]) /\ HeaderInv(s, i, Trace(Start, s)[i])
    BY <1>2
  <2>4. FirstLineInv(s, i + 1, Trace(Start, s)[i + 1])
    BY <2>1, <2>2, <2>3, FirstLineStep
  <2>5. HeaderInv(s, i + 1, Trace(Start, s)[i + 1])
    BY <2>1, <2>3, HeaderStep
  <2>6. QED
    BY <2>1, <2>4, <2>5
<1> HIDE DEF N
<1>3. 0..Len(s) \subseteq N
  BY <1>1, <1>2, UpTo
<1>4. QED
  BY <1>3 DEF N

------------------------------------------------------------------------------
(* What the parser takes                                                     *)

LEMMA Along ==
    ASSUME NEW S, NEW s \in Seq(S), NEW i \in 1..Len(s), NEW d \in Edges,
           At(s, i - 1) = d[1], s[i] \in d[2]
    PROVE  /\ At(s, i) = d[3]
           /\ d[3] # "header_name" => Headers(s, i) = Headers(s, i - 1)
<1>q. PICK q : q = Trace(Start, s)[i - 1]
  OBVIOUS
<1>1. q \in ParserStates /\ Trace(Start, s)[i] = Step(q, s[i]) /\ At(s, i - 1) = q.at /\ Headers(s, i - 1) = q.headers
  BY <1>q, AtStep DEF At, Headers
<1>2. Step(q, s[i]) = [at |-> d[3], headers |-> q.headers \/ d[3] = "header_name"]
  BY <1>1, StepAlong
<1>3. At(s, i) = d[3] /\ Headers(s, i) = (q.headers \/ d[3] = "header_name")
  BY <1>1, <1>2 DEF At, Headers
<1>4. q.headers \in BOOLEAN
  BY <1>1 DEF ParserStates
<1>5. d[3] # "header_name" => (q.headers \/ d[3] = "header_name") = q.headers
  BY <1>4
<1>6. QED
  BY <1>1, <1>3, <1>5

LEMMA Take ==
    ASSUME NEW S, NEW s \in Seq(S), NEW i \in 1..Len(s), NEW from, NEW set, NEW to, <<from, set, to>> \in Edges,
           At(s, i - 1) = from, s[i] \in set
    PROVE  At(s, i) = to /\ (to # "header_name" => Headers(s, i) = Headers(s, i - 1))
<1> DEFINE d == <<from, set, to>>
<1>1. d \in Edges /\ d[1] = from /\ d[2] = set /\ d[3] = to
  OBVIOUS
<1> HIDE DEF d
<1>2. QED
  BY <1>1, Along

\* A state that a run of characters does not leave.
LEMMA StayAlong ==
    ASSUME NEW S, NEW s \in Seq(S), NEW b \in 1..Len(s) + 1, NEW e \in b - 1..Len(s), NEW d \in Edges,
           d[1] = d[3], At(s, b - 1) = d[1], Within(s, b, e, d[2])
    PROVE  At(s, e) = d[1]
<1> DEFINE n == e - (b - 1)
           N == {k \in 0..n : At(s, b - 1 + k) = d[1]}
<1>1. n \in Nat /\ b - 1 + n = e
  OBVIOUS
<1>2. 0 \in N
  BY <1>1
<1>3. ASSUME NEW k \in 0..n - 1, k \in N PROVE k + 1 \in N
  <2>1. b + k \in 1..Len(s) /\ (b + k) - 1 = b - 1 + k /\ b - 1 + (k + 1) = b + k /\ b + k \in b..e /\ k + 1 \in 0..n
    BY <1>1
  <2>2. At(s, (b + k) - 1) = d[1] /\ s[b + k] \in d[2]
    BY <1>3, <2>1 DEF Within
  <2>3. At(s, b + k) = d[3]
    BY <2>1, <2>2, Along
  <2>4. QED
    BY <2>1, <2>3
<1> HIDE DEF N
<1>4. 0..n \subseteq N
  BY <1>1, <1>2, <1>3, UpTo
<1>5. n \in N
  BY <1>1, <1>4
<1>6. QED
  BY <1>1, <1>5 DEF N

LEMMA Stay ==
    ASSUME NEW S, NEW s \in Seq(S), NEW b \in 1..Len(s) + 1, NEW e \in b - 1..Len(s), NEW at, NEW set,
           <<at, set, at>> \in Edges, At(s, b - 1) = at, Within(s, b, e, set)
    PROVE  At(s, e) = at
<1> DEFINE d == <<at, set, at>>
<1>1. d \in Edges /\ d[1] = at /\ d[2] = set /\ d[3] = at
  OBVIOUS
<1> HIDE DEF d
<1>2. QED
  BY <1>1, StayAlong

LEMMA TakesRequestLine ==
    ASSUME NEW S, NEW s \in Seq(S), NEW n \in 0..Len(s), RequestLine(s, n)
    PROVE  At(s, n) = "http_version_minor" /\ ~Headers(s, n)
<1>1. PICK a \in 1..n, j \in 1..n :
        /\ Target(s, a, j)
        /\ \E d \in j + 7..n - 1 :
             /\ Http(s, j) /\ s[d] = "."
             /\ Within(s, j + 6, d - 1, {"digit"}) /\ Within(s, d + 1, n, {"digit"})
  BY RequestLineOf
<1>2. PICK d \in j + 7..n - 1 :
        /\ Http(s, j) /\ s[d] = "."
        /\ Within(s, j + 6, d - 1, {"digit"}) /\ Within(s, d + 1, n, {"digit"})
  BY <1>1
<1>3. At(s, 0) = "method_start"
  BY AtStart
<1>4. At(s, 1) = "method"
  <2>1. <<"method_start", Token, "method">> \in Edges
    BY DEF Edges
  <2>2. s[1] \in Token /\ 1 \in 1..Len(s)
    BY <1>1 DEF Target, Within
  <2>3. QED
    BY <1>3, <2>1, <2>2, Take
<1>5. At(s, a - 1) = "method"
  <2>1. <<"method", Token, "method">> \in Edges
    BY DEF Edges
  <2>2. Within(s, 2, a - 1, Token) /\ a - 1 \in 2 - 1..Len(s) /\ 2 \in 1..Len(s) + 1
    BY <1>1 DEF Target, Within
  <2>3. QED
    BY <1>4, <2>1, <2>2, Stay
<1>6. At(s, a) = "uri"
  <2>1. <<"method", {"SP"}, "uri">> \in Edges
    BY DEF Edges
  <2>2. s[a] = "SP" /\ a \in 1..Len(s)
    BY <1>1 DEF Target
  <2>3. QED
    BY <1>5, <2>1, <2>2, Take
<1>7. At(s, j - 1) = "uri"
  <2>1. <<"uri", Visible \ {"SP"}, "uri">> \in Edges
    BY DEF Edges
  <2>2. /\ Within(s, a + 1, j - 1, Visible \ {"SP"})
        /\ j - 1 \in (a + 1) - 1..Len(s) /\ a + 1 \in 1..Len(s) + 1 /\ (a + 1) - 1 = a
    BY <1>1 DEF Target
  <2>3. QED
    BY <1>6, <2>1, <2>2, Stay
<1>8. At(s, j) = "http_version_h"
  <2>1. <<"uri", {"SP"}, "http_version_h">> \in Edges
    BY DEF Edges
  <2>2. s[j] = "SP" /\ j \in 1..Len(s)
    BY <1>1 DEF Target
  <2>3. QED
    BY <1>7, <2>1, <2>2, Take
<1>9. At(s, j + 5) = "http_version_major_start"
  <2>1. /\ <<"http_version_h", {"H"}, "http_version_t_1">> \in Edges
        /\ <<"http_version_t_1", {"T"}, "http_version_t_2">> \in Edges
        /\ <<"http_version_t_2", {"T"}, "http_version_p">> \in Edges
        /\ <<"http_version_p", {"P"}, "http_version_slash">> \in Edges
        /\ <<"http_version_slash", {"/"}, "http_version_major_start">> \in Edges
    BY DEF Edges
  <2>2. s[j + 1] = "H" /\ s[j + 2] = "T" /\ s[j + 3] = "T" /\ s[j + 4] = "P" /\ s[j + 5] = "/"
    BY <1>2 DEF Http
  <2>3. \A k \in 1..5 : j + k \in 1..Len(s) /\ (j + k) - 1 = j + (k - 1)
    BY <1>1, <1>2
  <2>4. At(s, j + 1) = "http_version_t_1"
    <3>1. j + 1 \in 1..Len(s) /\ (j + 1) - 1 = j
      BY <2>3
    <3>2. QED
      BY <1>8, <2>1, <2>2, <3>1, Take
  <2>5. At(s, j + 2) = "http_version_t_2"
    <3>1. j + 2 \in 1..Len(s) /\ (j + 2) - 1 = j + 1
      BY <2>3
    <3>2. QED
      BY <2>1, <2>2, <2>4, <3>1, Take
  <2>6. At(s, j + 3) = "http_version_p"
    <3>1. j + 3 \in 1..Len(s) /\ (j + 3) - 1 = j + 2
      BY <2>3
    <3>2. QED
      BY <2>1, <2>2, <2>5, <3>1, Take
  <2>7. At(s, j + 4) = "http_version_slash"
    <3>1. j + 4 \in 1..Len(s) /\ (j + 4) - 1 = j + 3
      BY <2>3
    <3>2. QED
      BY <2>1, <2>2, <2>6, <3>1, Take
  <2>8. j + 5 \in 1..Len(s) /\ (j + 5) - 1 = j + 4
    BY <2>3
  <2>9. QED
    BY <2>1, <2>2, <2>7, <2>8, Take
<1>10. At(s, d - 1) = "http_version_major"
  <2>1. /\ <<"http_version_major_start", {"digit"}, "http_version_major">> \in Edges
        /\ <<"http_version_major", {"digit"}, "http_version_major">> \in Edges
    BY DEF Edges
  <2>2. j + 6 \in 1..Len(s) /\ (j + 6) - 1 = j + 5 /\ s[j + 6] \in {"digit"}
    BY <1>1, <1>2 DEF Within
  <2>3. At(s, j + 6) = "http_version_major"
    BY <1>9, <2>1, <2>2, Take
  <2>4. /\ Within(s, j + 7, d - 1, {"digit"}) /\ j + 7 \in 1..Len(s) + 1
        /\ d - 1 \in (j + 7) - 1..Len(s) /\ (j + 7) - 1 = j + 6
    BY <1>1, <1>2 DEF Within
  <2>5. QED
    BY <2>1, <2>3, <2>4, Stay
<1>11. At(s, d) = "http_version_minor_start"
  <2>1. <<"http_version_major", {"."}, "http_version_minor_start">> \in Edges
    BY DEF Edges
  <2>2. d \in 1..Len(s) /\ s[d] \in {"."}
    BY <1>1, <1>2
  <2>3. QED
    BY <1>10, <2>1, <2>2, Take
<1>12. At(s, n) = "http_version_minor"
  <2>1. /\ <<"http_version_minor_start", {"digit"}, "http_version_minor">> \in Edges
        /\ <<"http_version_minor", {"digit"}, "http_version_minor">> \in Edges
    BY DEF Edges
  <2>2. d + 1 \in 1..Len(s) /\ (d + 1) - 1 = d /\ s[d + 1] \in {"digit"}
    BY <1>1, <1>2 DEF Within
  <2>3. At(s, d + 1) = "http_version_minor"
    BY <1>11, <2>1, <2>2, Take
  <2>4. /\ Within(s, d + 2, n, {"digit"}) /\ d + 2 \in 1..Len(s) + 1
        /\ n \in (d + 2) - 1..Len(s) /\ (d + 2) - 1 = d + 1
    BY <1>1, <1>2 DEF Within
  <2>5. QED
    BY <2>1, <2>3, <2>4, Stay
<1>13. ~Headers(s, n)
  <2>1. FirstLineInv(s, n, Trace(Start, s)[n])
    BY Forward
  <2>2. QED
    BY <1>12, <2>1 DEF FirstLineInv, FirstStates, At, Headers
<1>14. QED
  BY <1>12, <1>13

LEMMA TakesHeader ==
    ASSUME NEW S, NEW s \in Seq(S), NEW b \in 1..Len(s), NEW e \in 0..Len(s), AtLine(s, b), HeaderLine(s, b, e)
    PROVE  At(s, e) = "header_value"
<1>1. PICK c \in b + 1..e - 1 : /\ Within(s, b, c - 1, Token) /\ s[c] = ":" /\ s[c + 1] = "SP"
                                /\ Within(s, c + 2, e, Visible)
  BY DEF HeaderLine
<1>2. /\ <<"header_line_start", Token, "header_name">> \in Edges
      /\ <<"header_name", Token, "header_name">> \in Edges
      /\ <<"header_name", {":"}, "space_before_header_value">> \in Edges
      /\ <<"space_before_header_value", {"SP"}, "header_value">> \in Edges
      /\ <<"header_value", Visible, "header_value">> \in Edges
  BY DEF Edges
<1>3. At(s, b) = "header_name"
  <2>1. s[b] \in Token
    BY <1>1 DEF Within
  <2>2. QED
    BY <1>2, <2>1, Take DEF AtLine
<1>4. At(s, c - 1) = "header_name"
  <2>1. /\ Within(s, b + 1, c - 1, Token) /\ b + 1 \in 1..Len(s) + 1
        /\ c - 1 \in (b + 1) - 1..Len(s) /\ (b + 1) - 1 = b
    BY <1>1 DEF Within
  <2>2. QED
    BY <1>2, <1>3, <2>1, Stay
<1>5. At(s, c) = "space_before_header_value"
  <2>1. c \in 1..Len(s) /\ s[c] \in {":"}
    BY <1>1
  <2>2. QED
    BY <1>2, <1>4, <2>1, Take
<1>6. At(s, c + 1) = "header_value"
  <2>1. c + 1 \in 1..Len(s) /\ s[c + 1] \in {"SP"} /\ (c + 1) - 1 = c
    BY <1>1
  <2>2. QED
    BY <1>2, <1>5, <2>1, Take
<1>7. /\ c + 2 \in 1..Len(s) + 1 /\ e \in (c + 2) - 1..Len(s) /\ (c + 2) - 1 = c + 1
  BY <1>1
<1>8. QED
  BY <1>1, <1>2, <1>6, <1>7, Stay

LEMMA TakesContinuation ==
    ASSUME NEW S, NEW s \in Seq(S), NEW b \in 1..Len(s), NEW e \in 0..Len(s), AtLine(s, b), Headers(s, b - 1),
           Continuation(s, b, e)
    PROVE  At(s, e) \in {"header_lws", "header_value"}
<1>1. PICK c \in b..e : Within(s, b, c, {"SP", "TAB"}) /\ Within(s, c + 1, e, Visible)
  BY DEF Continuation
<1>2. /\ <<"header_lws", {"SP", "TAB"}, "header_lws">> \in Edges
      /\ <<"header_lws", Visible \ {"SP"}, "header_value">> \in Edges
      /\ <<"header_value", Visible, "header_value">> \in Edges
  BY DEF Edges
<1>3. At(s, b) = "header_lws"
  <2>q. PICK q : q = Trace(Start, s)[b - 1]
    OBVIOUS
  <2>1. q \in ParserStates /\ Trace(Start, s)[b] = Step(q, s[b]) /\ q.at = "header_line_start"
    BY <2>q, AtStep DEF AtLine, At
  <2>2. q.headers
    BY <2>q DEF Headers
  <2>3. s[b] \in {"SP", "TAB"}
    BY <1>1 DEF Within
  <2>4. QED
    BY <2>1, <2>2, <2>3, StepBlank DEF At
<1>4. At(s, c) = "header_lws"
  <2>1. /\ Within(s, b + 1, c, {"SP", "TAB"}) /\ b + 1 \in 1..Len(s) + 1
        /\ c \in (b + 1) - 1..Len(s) /\ (b + 1) - 1 = b
    BY <1>1 DEF Within
  <2>2. QED
    BY <1>2, <1>3, <2>1, Stay
<1> DEFINE n == e - c
           N == {k \in 0..n : At(s, c + k) \in {"header_lws", "header_value"}}
<1>5. n \in Nat /\ c + n = e
  BY <1>1
<1>6. 0 \in N
  BY <1>1, <1>4, <1>5
<1>7. ASSUME NEW k \in 0..n - 1, k \in N PROVE k + 1 \in N
  <2> DEFINE i == c + (k + 1)
  <2>1. i \in 1..Len(s) /\ i - 1 = c + k /\ i \in c + 1..e /\ k + 1 \in 0..n
    BY <1>1, <1>5
  <2>2. s[i] \in Visible /\ At(s, i - 1) \in {"header_lws", "header_value"}
    BY <1>1, <1>7, <2>1 DEF Within
  <2> HIDE DEF i
  <2>3. CASE At(s, i - 1) = "header_value"
    <3>1. At(s, i) = "header_value"
      BY <1>2, <2>1, <2>2, <2>3, Take
    <3>2. QED
      BY <2>1, <3>1 DEF i
  <2>4. CASE At(s, i - 1) = "header_lws" /\ s[i] = "SP"
    <3>1. At(s, i) = "header_lws"
      BY <1>2, <2>1, <2>4, Take
    <3>2. QED
      BY <2>1, <3>1 DEF i
  <2>5. CASE At(s, i - 1) = "header_lws" /\ s[i] # "SP"
    <3>1. At(s, i) = "header_value"
      BY <1>2, <2>1, <2>2, <2>5, Take
    <3>2. QED
      BY <2>1, <3>1 DEF i
  <2>6. QED
    BY <2>2, <2>3, <2>4, <2>5
<1> HIDE DEF N
<1>8. 0..n \subseteq N
  BY <1>5, <1>6, <1>7, UpTo
<1>9. n \in N
  BY <1>5, <1>8
<1>10. QED
  BY <1>5, <1>9 DEF N

LEMMA TakesNewLine ==
    ASSUME NEW S, NEW s \in Seq(S), NEW e \in 0..Len(s) - 2, s[e + 1] = "CR", s[e + 2] = "LF",
           At(s, e) \in {"http_version_minor", "header_lws", "header_value"}
    PROVE  AtLine(s, e + 3) /\ Headers(s, e + 2) = Headers(s, e)
<1>1. /\ <<"http_version_minor", {"CR"}, "expecting_newline_1">> \in Edges
      /\ <<"header_lws", {"CR"}, "expecting_newline_2">> \in Edges
      /\ <<"header_value", {"CR"}, "expecting_newline_2">> \in Edges
      /\ <<"expecting_newline_1", {"LF"}, "header_line_start">> \in Edges
      /\ <<"expecting_newline_2", {"LF"}, "header_line_start">> \in Edges
  BY DEF Edges
<1>2. e + 1 \in 1..Len(s) /\ (e + 1) - 1 = e /\ e + 2 \in 1..Len(s) /\ (e + 2) - 1 = e + 1 /\ (e + 3) - 1 = e + 2
  OBVIOUS
<1>3. At(s, e + 1) \in {"expecting_newline_1", "expecting_newline_2"} /\ Headers(s, e + 1) = Headers(s, e)
  <2>1. CASE At(s, e) = "http_version_minor"
    BY <1>1, <1>2, <2>1, Take
  <2>2. CASE At(s, e) = "header_lws"
    BY <1>1, <1>2, <2>2, Take
  <2>3. CASE At(s, e) = "header_value"
    BY <1>1, <1>2, <2>3, Take
  <2>4. QED
    BY <2>1, <2>2, <2>3
<1>4. At(s, e + 2) = "header_line_start" /\ Headers(s, e + 2) = Headers(s, e + 1)
  <2>1. CASE At(s, e + 1) = "expecting_newline_1"
    BY <1>1, <1>2, <2>1, Take
  <2>2. CASE At(s, e + 1) = "expecting_newline_2"
    BY <1>1, <1>2, <2>2, Take
  <2>3. QED
    BY <1>3, <2>1, <2>2
<1>5. QED
  BY <1>2, <1>3, <1>4 DEF AtLine

------------------------------------------------------------------------------
(* The parser takes requests and nothing else                                *)

LEMMA EndsAre ==
    ASSUME NEW S, NEW s \in Seq(S)
    PROVE  /\ \A i : i \in Ends(s) <=> i \in 1..Len(s) - 1 /\ s[i] = "CR" /\ s[i + 1] = "LF"
           /\ \A b : b \in Begins(s) <=> b = 1 \/ \E d \in Ends(s) : b = d + 2
           /\ \A d \in Ends(s) : d + 2 \in Begins(s)
BY DEF Ends, Begins

\* A line ends wherever lines end.
LEMMA LineOf ==
    ASSUME NEW S, NEW s \in Seq(S), NEW i \in Ends(s)
    PROVE  \E b \in Begins(s) : b >= 1 /\ <<b, i>> \in Lines(s)
<1> DEFINE M == {m \in Nat : \E x \in Begins(s) : x <= i /\ m = i - x}
<1>1. i \in 1..Len(s) - 1 /\ s[i] = "CR"
  BY EndsAre
<1>2. \A x \in Begins(s) : x \in Nat /\ x >= 1
  BY EndsAre
<1>3. i - 1 \in M
  <2>1. 1 \in Begins(s) /\ 1 <= i /\ i - 1 \in Nat
    BY <1>1 DEF Begins
  <2>2. QED
    BY <2>1
<1>4. PICK m \in M : \A k \in M : m <= k
  <2>1. M \in SUBSET Nat /\ M # {}
    BY <1>3
  <2> HIDE DEF M
  <2>2. QED
    BY <2>1, LeastOf
<1>5. PICK b \in Begins(s) : b <= i /\ m = i - b
  BY <1>4
<1>6. ASSUME NEW d \in Ends(s), b <= d, d < i PROVE FALSE
  <2>1. d \in Nat /\ s[d + 1] = "LF" /\ d + 2 \in Begins(s)
    BY EndsAre
  <2>2. d + 1 # i
    BY <1>1, <2>1
  <2>3. d + 2 <= i /\ i - (d + 2) \in Nat
    BY <1>1, <1>6, <2>1, <2>2
  <2>4. i - (d + 2) \in M
    BY <2>1, <2>3
  <2>5. m <= i - (d + 2)
    BY <1>4, <2>4
  <2>6. QED
    BY <1>1, <1>2, <1>5, <1>6, <2>1, <2>5
<1>7. QED
  BY <1>2, <1>5, <1>6 DEF Lines

\* Before the begin of a line the parser is between lines, and it has a header just
\* when another line after the first one is before.
LEMMA RequestLinesTaken ==
    ASSUME NEW S, NEW s \in Seq(S), IsRequest(s)
    PROVE  \A b \in Begins(s) : 1 < b /\ b <= Len(s) - 1 =>
             AtLine(s, b) /\ (Headers(s, b - 1) <=> \E a \in Begins(s) : 1 < a /\ a < b)
<1> DEFINE n == Len(s)
           Claim(b) == AtLine(s, b) /\ (Headers(s, b - 1) <=> \E a \in Begins(s) : 1 < a /\ a < b)
           T == {b \in Begins(s) : 1 < b /\ b <= n - 1 /\ ~Claim(b)}
<1>1. \A x \in Begins(s) : x \in Nat /\ x >= 1
  BY EndsAre
<1> SUFFICES ASSUME T # {} PROVE FALSE
  OBVIOUS
<1>2. PICK b \in T : \A x \in T : b <= x
  <2>1. T \in SUBSET Nat
    BY <1>1
  <2> HIDE DEF T
  <2>2. QED
    BY <2>1, LeastOf
<1>3. \A x \in Begins(s) : 1 < x /\ x < b => Claim(x)
  <2>1. b \in Nat /\ b <= n - 1 /\ n \in Nat
    BY <1>1, <1>2
  <2>2. ASSUME NEW x \in Begins(s), 1 < x, x < b, ~Claim(x) PROVE FALSE
    <3>1. x \in Nat /\ x <= n - 1
      BY <1>1, <2>1, <2>2
    <3>2. x \in T
      BY <2>2, <3>1
    <3>3. b <= x
      BY <1>2, <3>2
    <3> HIDE DEF T, Claim, n
    <3>4. QED
      BY <2>1, <2>2, <3>1, <3>3
  <2> HIDE DEF T, Claim
  <2>3. QED
    BY <2>2
<1>4. PICK i \in Ends(s) : b = i + 2
  BY <1>2, EndsAre
<1>5. /\ i \in 1..n - 3 /\ s[i] = "CR" /\ s[i + 1] = "LF" /\ n \in Nat /\ b \in Begins(s) /\ 1 < b
      /\ (i - 1) + 1 = i /\ (i - 1) + 2 = i + 1 /\ (i - 1) + 3 = b /\ b - 1 = i + 1 /\ i - 1 \in 0..n - 2 /\ i - 1 \in 0..n
  BY <1>2, <1>4, EndsAre
<1>6. PICK c \in Begins(s) : c >= 1 /\ <<c, i>> \in Lines(s)
  BY LineOf
<1>7. c \in Nat /\ c <= i /\ c < b /\ \A d \in Ends(s) : ~(c <= d /\ d < i)
  BY <1>1, <1>4, <1>5, <1>6 DEF Lines
<1>8. \/ c = 1 /\ RequestLine(s, i - 1)
      \/ 1 < c /\ HeaderLine(s, c, i - 1)
      \/ Continuation(s, c, i - 1) /\ \E a \in Begins(s) : 1 < a /\ a < c
      \/ c = n - 1
  BY <1>6 DEF IsRequest
<1>9. ASSUME At(s, i - 1) \in {"http_version_minor", "header_lws", "header_value"}
      PROVE  AtLine(s, b) /\ Headers(s, b - 1) = Headers(s, i - 1)
  BY <1>5, <1>9, TakesNewLine
<1>10. CASE c = 1 /\ RequestLine(s, i - 1)
  <2>1. At(s, i - 1) = "http_version_minor" /\ ~Headers(s, i - 1)
    BY <1>5, <1>10, TakesRequestLine
  <2>2. AtLine(s, b) /\ ~Headers(s, b - 1)
    BY <1>9, <2>1, Zenon
  <2>3. ASSUME NEW a \in Begins(s), 1 < a, a < b PROVE FALSE
    <3>1. PICK d \in Ends(s) : a = d + 2
      BY <2>3, EndsAre
    <3>2. d \in Nat /\ d >= 1
      BY EndsAre
    <3>3. QED
      BY <1>4, <1>5, <1>7, <1>10, <2>3, <3>1, <3>2
  <2>4. Claim(b)
    BY <2>2, <2>3
  <2>5. QED
    BY <1>2, <2>4
<1>11. CASE 1 < c /\ Follows(s, c, i - 1)
  <2>1. AtLine(s, c) /\ c \in 1..n
    BY <1>3, <1>5, <1>7, <1>11
  <2>2. At(s, i - 1) \in {"header_lws", "header_value"}
    <3>1. HeaderLine(s, c, i - 1) => At(s, i - 1) = "header_value"
      BY <1>5, <2>1, TakesHeader
    <3>2. Headers(s, c - 1) /\ Continuation(s, c, i - 1) => At(s, i - 1) \in {"header_lws", "header_value"}
      BY <1>5, <2>1, TakesContinuation
    <3>3. QED
      BY <1>11, <3>1, <3>2 DEF Follows
  <2>3. Headers(s, i - 1)
    <3>1. HeaderInv(s, i - 1, Trace(Start, s)[i - 1])
      BY <1>5, Forward
    <3>2. QED
      BY <2>2, <3>1 DEF HeaderInv, At, Headers
  <2>4. AtLine(s, b) /\ Headers(s, b - 1)
    BY <1>9, <2>2, <2>3, Zenon
  <2>5. \E a \in Begins(s) : 1 < a /\ a < b
    BY <1>7, <1>11
  <2>6. Claim(b)
    BY <2>4, <2>5
  <2>7. QED
    BY <1>2, <2>6
<1>12. CASE Continuation(s, c, i - 1) /\ \E a \in Begins(s) : 1 < a /\ a < c
  <2>1. 1 < c
    BY <1>1, <1>7, <1>12
  <2>2. Headers(s, c - 1)
    BY <1>3, <1>7, <1>12, <2>1
  <2>3. QED
    BY <1>11, <1>12, <2>1, <2>2 DEF Follows
<1>13. CASE 1 < c /\ HeaderLine(s, c, i - 1)
  BY <1>11, <1>13 DEF Follows
<1>14. c # n - 1
  BY <1>5, <1>7
<1>15. QED
  BY <1>8, <1>10, <1>12, <1>13, <1>14

Taken(s) == Len(s) >= 1 /\ At(s, Len(s)) = "good" /\ At(s, Len(s) - 1) # "good"

LEMMA RequestTaken == ASSUME NEW S, NEW s \in Seq(S), IsRequest(s) PROVE Taken(s)
<1> DEFINE n == Len(s)
<1>1. n \in Nat /\ n >= 4 /\ n - 3 \in Ends(s) /\ n - 1 \in Ends(s)
  BY DEF IsRequest
<1>2. n - 1 \in Begins(s) /\ 1 < n - 1
  <2>1. (n - 3) + 2 = n - 1
    BY <1>1
  <2>2. QED
    BY <1>1, <2>1, EndsAre
<1>3. At(s, (n - 1) - 1) = "header_line_start"
  BY <1>1, <1>2, RequestLinesTaken DEF AtLine
<1>4. s[n - 1] = "CR" /\ s[n] = "LF" /\ n - 1 \in 1..n /\ n \in 1..n
  <2>1. (n - 1) + 1 = n
    BY <1>1
  <2>2. QED
    BY <1>1, <2>1, EndsAre
<1>5. /\ <<"header_line_start", {"CR"}, "expecting_newline_3">> \in Edges
      /\ <<"expecting_newline_3", {"LF"}, "good">> \in Edges
  BY DEF Edges
<1>6. At(s, n - 1) = "expecting_newline_3"
  BY <1>3, <1>4, <1>5, Take
<1>7. At(s, n) = "good"
  BY <1>4, <1>5, <1>6, Take
<1>8. QED
  BY <1>1, <1>6, <1>7 DEF Taken

LEMMA NoReturns == "CR" \notin Token /\ "CR" \notin Visible
BY DEF Token, Visible

LEMMA RequestLineNoCR ==
    ASSUME NEW s, NEW n \in Nat, RequestLine(s, n), NEW k \in 1..n
    PROVE  s[k] # "CR"
<1>1. PICK a \in 1..n, j \in 1..n :
        /\ Target(s, a, j)
        /\ \E d \in j + 7..n - 1 :
             /\ Http(s, j) /\ s[d] = "."
             /\ Within(s, j + 6, d - 1, {"digit"}) /\ Within(s, d + 1, n, {"digit"})
  BY RequestLineOf
<1>2. PICK d \in j + 7..n - 1 :
        /\ Http(s, j) /\ s[d] = "."
        /\ Within(s, j + 6, d - 1, {"digit"}) /\ Within(s, d + 1, n, {"digit"})
  BY <1>1
<1>3. CASE k \in 1..j
  BY <1>1, <1>3, NoReturns DEF Target, Within
<1>4. CASE k \in j + 1..j + 5
  <2>1. s[j + 1] = "H" /\ s[j + 2] = "T" /\ s[j + 3] = "T" /\ s[j + 4] = "P" /\ s[j + 5] = "/"
    BY <1>2 DEF Http
  <2>2. k = j + 1 \/ k = j + 2 \/ k = j + 3 \/ k = j + 4 \/ k = j + 5
    BY <1>4
  <2>3. QED
    BY <2>1, <2>2
<1>5. CASE k \in j + 6..n
  BY <1>2, <1>5 DEF Within
<1>6. QED
  BY <1>3, <1>4, <1>5

LEMMA FollowsNoCR ==
    ASSUME NEW s, NEW b \in Nat, NEW e \in Nat, Follows(s, b, e)
    PROVE  b <= e /\ \A k \in b..e : s[k] # "CR"
<1>1. CASE HeaderLine(s, b, e)
  <2>1. PICK c \in b + 1..e - 1 : /\ Within(s, b, c - 1, Token) /\ s[c] = ":" /\ s[c + 1] = "SP"
                                  /\ Within(s, c + 2, e, Visible)
    BY <1>1 DEF HeaderLine
  <2>2. QED
    BY <2>1, NoReturns DEF Within
<1>2. CASE Continuation(s, b, e)
  <2>1. PICK c \in b..e : Within(s, b, c, {"SP", "TAB"}) /\ Within(s, c + 1, e, Visible)
    BY <1>2 DEF Continuation
  <2>2. QED
    BY <2>1, NoReturns DEF Within
<1>3. QED
  BY <1>1, <1>2 DEF Follows

\* A line of a request that is not the empty one.
GoodLine(s, b, e) ==
    \/ b = 1 /\ RequestLine(s, e)
    \/ 1 < b /\ HeaderLine(s, b, e)
    \/ Continuation(s, b, e) /\ \E a \in Begins(s) : 1 < a /\ a < b

\* When the parser is between lines, it is so, the lines before are those of a
\* request, and one of them is a header if it has one.
LinesGood(s, n) ==
    /\ n >= 2 /\ n - 1 \in Ends(s)
    /\ Headers(s, n) => \E a \in Begins(s) : 1 < a /\ a <= n
    /\ \A b \in Begins(s), i \in Ends(s) : <<b, i>> \in Lines(s) /\ i + 1 <= n => GoodLine(s, b, i - 1)

LEMMA LinesRead ==
    ASSUME NEW S, NEW s \in Seq(S), NEW n \in 0..Len(s), At(s, n) = "header_line_start",
           \A m \in 0..n - 1 : At(s, m) = "header_line_start" => LinesGood(s, m)
    PROVE  LinesGood(s, n)
<1>q. PICK q : q = Trace(Start, s)[n]
  OBVIOUS
<1>1. HeaderInv(s, n, q) /\ q.at = "header_line_start" /\ q.headers = Headers(s, n)
  BY <1>q, Forward DEF At, Headers
<1>2. /\ n >= 2 /\ s[n - 1] = "CR" /\ s[n] = "LF"
      /\ \/ ~q.headers /\ RequestLine(s, n - 2)
         \/ q.headers /\ \E b \in 1..n : AtLine(s, b) /\ Follows(s, b, n - 2)
  BY <1>1 DEF HeaderInv
<1>3. n - 1 \in Ends(s) /\ n - 2 \in Nat
  <2>1. n - 1 \in 1..Len(s) - 1 /\ (n - 1) + 1 = n
    BY <1>2
  <2>2. QED
    BY <1>2, <2>1, EndsAre
<1>4. CASE ~q.headers /\ RequestLine(s, n - 2)
  <2>1. \A k \in 1..n - 2 : s[k] # "CR"
    BY <1>3, <1>4, RequestLineNoCR
  <2>2. ~Headers(s, n)
    BY <1>1, <1>4
  <2>3. ASSUME NEW b \in Begins(s), NEW i \in Ends(s), <<b, i>> \in Lines(s), i + 1 <= n
        PROVE  GoodLine(s, b, i - 1)
    <3>1. i \in 1..Len(s) - 1 /\ s[i] = "CR" /\ b <= i
      BY <2>3, EndsAre DEF Lines
    <3>2. i = n - 1
      BY <1>2, <2>1, <2>3, <3>1
    <3>3. b = 1
      <4>1. ASSUME NEW d \in Ends(s), b = d + 2 PROVE FALSE
        <5>1. d \in 1..Len(s) - 1 /\ s[d] = "CR"
          BY EndsAre
        <5>2. d \in 1..n - 2
          BY <3>1, <3>2, <4>1, <5>1
        <5>3. QED
          BY <2>1, <5>1, <5>2
      <4>2. QED
        BY <4>1, EndsAre
    <3>4. i - 1 = n - 2
      BY <3>2
    <3>5. QED
      BY <1>4, <3>3, <3>4 DEF GoodLine
  <2>4. QED
    BY <1>2, <1>3, <2>2, <2>3 DEF LinesGood
<1>5. CASE q.headers /\ \E b \in 1..n : AtLine(s, b) /\ Follows(s, b, n - 2)
  <2>1. PICK c \in 1..n : AtLine(s, c) /\ Follows(s, c, n - 2)
    BY <1>5
  <2>2. c <= n - 2 /\ \A k \in c..n - 2 : s[k] # "CR"
    BY <1>3, <2>1, FollowsNoCR
  <2>3. LinesGood(s, c - 1)
    <3>1. c - 1 \in 0..n - 1
      OBVIOUS
    <3>2. QED
      BY <2>1, <3>1 DEF AtLine
  <2>4. c - 2 \in Ends(s) /\ c \in Begins(s) /\ c >= 3 /\ s[c - 2] = "CR" /\ s[c - 1] = "LF"
    <3>1. (c - 1) - 1 = c - 2 /\ (c - 2) + 2 = c /\ (c - 2) + 1 = c - 1
      OBVIOUS
    <3>2. c - 2 \in Ends(s) /\ c >= 3
      BY <2>3, <3>1 DEF LinesGood
    <3>3. QED
      BY <3>1, <3>2, EndsAre
  <2>5. \E a \in Begins(s) : 1 < a /\ a <= n
    BY <2>4
  <2>6. ASSUME NEW b \in Begins(s), NEW i \in Ends(s), <<b, i>> \in Lines(s), i + 1 <= n
        PROVE  GoodLine(s, b, i - 1)
    <3>1. i \in 1..Len(s) - 1 /\ s[i] = "CR" /\ b <= i /\ \A d \in Ends(s) : ~(b <= d /\ d < i)
      BY <2>6, EndsAre DEF Lines
    <3>2. CASE i + 1 <= c - 1
      BY <2>3, <2>6, <3>2 DEF LinesGood
    <3>3. CASE ~(i + 1 <= c - 1)
      <4>1. i = n - 1
        <5>1. i # c - 1
          BY <2>4, <3>1
        <5>2. ~(i \in c..n - 2)
          BY <2>2, <3>1
        <5>3. QED
          BY <2>6, <3>1, <3>3, <5>1, <5>2
      <4>2. b = c
        <5>1. b \in Nat /\ b > c - 2
          <6>1. b \in Nat
            BY EndsAre
          <6>2. c - 2 < i
            BY <2>2, <4>1
          <6>3. ~(b <= c - 2)
            BY <2>4, <3>1, <6>2
          <6>4. QED
            BY <6>1, <6>3
        <5>2. PICK d \in Ends(s) : b = d + 2
          BY <2>4, <5>1, EndsAre
        <5>3. d \in 1..Len(s) - 1 /\ s[d] = "CR" /\ s[d + 1] = "LF"
          BY EndsAre
        <5>4. d + 1 # c - 2 /\ d # c - 1
          BY <2>4, <5>3
        <5>5. ~(d \in c..n - 2)
          BY <2>2, <5>3
        <5>6. QED
          BY <3>1, <4>1, <5>1, <5>2, <5>3, <5>4, <5>5
      <4>3. Follows(s, b, i - 1) /\ 1 < b
        <5>1. i - 1 = n - 2
          BY <4>1
        <5>2. QED
          BY <2>1, <2>4, <4>2, <5>1
      <4>4. Headers(s, b - 1) => \E a \in Begins(s) : 1 < a /\ a < b
        BY <2>3, <4>2 DEF LinesGood
      <4>5. QED
        BY <4>3, <4>4 DEF GoodLine, Follows
    <3>4. QED
      BY <3>2, <3>3
  <2>7. QED
    BY <1>2, <1>3, <2>5, <2>6 DEF LinesGood
<1>6. QED
  BY <1>2, <1>4, <1>5

LEMMA LinesAreGood ==
    ASSUME NEW S, NEW s \in Seq(S), NEW n \in 0..Len(s), At(s, n) = "header_line_start"
    PROVE  LinesGood(s, n)
<1> DEFINE T == {m \in 0..Len(s) : At(s, m) = "header_line_start" /\ ~LinesGood(s, m)}
<1> SUFFICES ASSUME T # {} PROVE FALSE
  OBVIOUS
<1>1. PICK m \in T : \A k \in T : m <= k
  <2>1. T \in SUBSET Nat
    OBVIOUS
  <2> HIDE DEF T
  <2>2. QED
    BY <2>1, LeastOf
<1>2. m \in 0..Len(s) /\ At(s, m) = "header_line_start" /\ ~LinesGood(s, m)
  BY <1>1
<1>3. ASSUME NEW k \in 0..m - 1, At(s, k) = "header_line_start" PROVE LinesGood(s, k)
  <2>1. k \in 0..Len(s) /\ ~(m <= k)
    BY <1>2
  <2>2. k \notin T
    BY <1>1, <2>1
  <2>3. QED
    BY <1>3, <2>1, <2>2
<1>4. QED
  BY <1>2, <1>3, LinesRead

LEMMA TakenIsRequest == ASSUME NEW S, NEW s \in Seq(S), Taken(s) PROVE IsRequest(s)
<1> DEFINE n == Len(s)
<1>1. n \in Nat /\ n >= 1 /\ n \in 1..Len(s)
  BY DEF Taken
<1>q. PICK q : q = Trace(Start, s)[n - 1]
  OBVIOUS
<1>2. q \in ParserStates /\ q.at # "good" /\ Step(q, s[n]).at = "good"
  BY <1>1, <1>q, AtStep DEF At, Taken
<1>3. q.at = "expecting_newline_3" /\ s[n] = "LF"
  <2>1. PICK d \in Edges : /\ d[1] = q.at /\ s[n] \in d[2]
                           /\ Step(q, s[n]) = [at |-> d[3], headers |-> q.headers \/ d[3] = "header_name"]
    BY <1>2, StepFrom
  <2>2. d[3] = "good"
    BY <1>2, <2>1
  <2>3. QED
    BY <2>1, <2>2, EdgesInto
<1>4. AtLine(s, n - 1) /\ s[n - 1] = "CR"
  <2>1. n - 1 \in 0..Len(s)
    BY <1>1
  <2>2. HeaderInv(s, n - 1, q)
    BY <1>q, <2>1, Forward
  <2>3. QED
    BY <1>3, <2>2 DEF HeaderInv
<1>5. n - 2 \in 0..Len(s) /\ (n - 1) - 1 = n - 2
  <2>1. n # 1
    <3>1. CASE n = 1
      <4>1. q.at = "method_start"
        BY <1>q, <3>1, AtStart DEF At
      <4>2. QED
        BY <1>3, <4>1
    <3>2. QED
      BY <3>1
  <2>2. n = Len(s)
    OBVIOUS
  <2> HIDE DEF n
  <2>3. QED
    BY <1>1, <2>1, <2>2
<1>6. At(s, n - 2) = "header_line_start"
  BY <1>4, <1>5 DEF AtLine
<1>7. LinesGood(s, n - 2)
  BY <1>5, <1>6, LinesAreGood
<1>8. n >= 4 /\ n - 3 \in Ends(s) /\ n - 1 \in Ends(s)
  <2>1. (n - 2) - 1 = n - 3 /\ (n - 1) + 1 = n
    BY <1>1
  <2>2. n >= 4 /\ n - 3 \in Ends(s)
    BY <1>1, <1>7, <2>1 DEF LinesGood
  <2>3. QED
    BY <1>1, <1>3, <1>4, <2>1, <2>2, EndsAre
<1>9. ASSUME NEW b \in Begins(s), NEW i \in Ends(s), <<b, i>> \in Lines(s)
      PROVE  GoodLine(s, b, i - 1) \/ b = n - 1
  <2>1. /\ i \in 1..n - 1 /\ s[i] = "CR" /\ s[i + 1] = "LF" /\ b <= i /\ b \in Nat
        /\ \A d \in Ends(s) : ~(b <= d /\ d < i)
    BY <1>9, EndsAre DEF Lines
  <2>2. CASE i + 1 <= n - 2
    BY <1>7, <1>9, <2>2 DEF LinesGood
  <2>3. CASE ~(i + 1 <= n - 2)
    <3>1. s[n - 2] = "LF"
      <4>1. (n - 3) + 1 = n - 2
        BY <1>1
      <4>2. QED
        BY <1>8, <4>1, EndsAre
    <3>2. i # n - 2
      BY <2>1, <3>1
    <3>3. i = n - 1
      BY <1>1, <2>1, <2>3, <3>2
    <3>4. ~(b <= n - 3)
      BY <1>1, <1>8, <2>1, <3>3
    <3>5. b # n - 2
      <4>1. ASSUME NEW d \in Ends(s), b = d + 2, b = n - 2 PROVE FALSE
        <5>1. d \in 1..n - 1 /\ s[d + 1] = "LF" /\ d + 1 = n - 3 /\ s[n - 3] = "CR"
          BY <1>1, <1>8, <4>1, EndsAre
        <5>2. QED
          BY <5>1
      <4>2. n - 2 # 1
        BY <1>8
      <4>3. QED
        BY <4>1, <4>2, EndsAre
    <3>6. QED
      BY <1>1, <2>1, <3>3, <3>4, <3>5
  <2>4. QED
    BY <2>2, <2>3
<1>10. ASSUME NEW l \in Lines(s)
       PROVE  \/ l[1] = 1 /\ RequestLine(s, l[2] - 1)
              \/ 1 < l[1] /\ HeaderLine(s, l[1], l[2] - 1)
              \/ Continuation(s, l[1], l[2] - 1) /\ \E a \in Begins(s) : 1 < a /\ a < l[1]
              \/ l[1] = n - 1
  <2>1. PICK b \in Begins(s), i \in Ends(s) : l = <<b, i>>
    BY DEF Lines
  <2>2. GoodLine(s, b, i - 1) \/ b = n - 1
    BY <1>9, <2>1
  <2>3. l[1] = b /\ l[2] = i
    BY <2>1
  <2> HIDE DEF n
  <2>4. QED
    BY <2>2, <2>3 DEF GoodLine
<1>11. QED
  BY <1>8, <1>10 DEF IsRequest

\* The parser takes s to its end, and not before, just when s is a request.
THEOREM TakesRequests == ASSUME NEW S, NEW s \in Seq(S) PROVE Taken(s) <=> IsRequest(s)
BY RequestTaken, TakenIsRequest

------------------------------------------------------------------------------
(* The servers                                                               *)

LEMMA GoodStays ==
    ASSUME NEW S, NEW s \in Seq(S), NEW b \in 0..Len(s), NEW e \in b..Len(s), At(s, b) = "good"
    PROVE  At(s, e) = "good"
<1> DEFINE n == e - b
           N == {k \in 0..n : At(s, b + k) = "good"}
<1>1. n \in Nat /\ b + n = e
  OBVIOUS
<1>2. 0 \in N
  BY <1>1
<1>3. ASSUME NEW k \in 0..n - 1, k \in N PROVE k + 1 \in N
  <2>1. b + (k + 1) \in 1..Len(s) /\ (b + (k + 1)) - 1 = b + k /\ k + 1 \in 0..n
    BY <1>1
  <2>2. Trace(Start, s)[b + (k + 1)] = Step(Trace(Start, s)[b + k], s[b + (k + 1)])
    BY <2>1, AtStep
  <2>3. At(s, b + k) = "good"
    BY <1>3
  <2>4. At(s, b + (k + 1)) = "good"
    BY <2>2, <2>3 DEF At, Step
  <2>5. QED
    BY <2>1, <2>4
<1> HIDE DEF N
<1>4. 0..n \subseteq N
  BY <1>1, <1>2, <1>3, UpTo
<1>5. n \in N
  BY <1>1, <1>4
<1>6. QED
  BY <1>1, <1>5 DEF N

LEMMA PrefixAt ==
    ASSUME NEW S, NEW s \in Seq(S), NEW i \in 0..Len(s)
    PROVE  LET t == SubSeq(s, 1, i) IN t \in Seq(S) /\ Len(t) = i /\ \A m \in 0..i : At(t, m) = At(s, m)
<1>1. Trace(Start, s)[0] = Start
  BY TraceSteps
<1>2. 0 \in 0..Len(s) /\ i - 0 = i /\ 0 + 1 = 1 /\ \A m \in 0..i : 0 + m = m
  OBVIOUS
<1>3. LET t == SubSeq(s, 0 + 1, i) IN
      /\ t \in Seq(S) /\ Len(t) = i - 0
      /\ \A m \in 0..i - 0 : Trace(Trace(Start, s)[0], t)[m] = Trace(Start, s)[0 + m]
  BY <1>2, TracePiece
<1>4. QED
  BY <1>1, <1>2, <1>3 DEF At

\* The parser is content when what it has seen begins with a request.
LEMMA GoodIsPrefix ==
    ASSUME NEW S, NEW s \in Seq(S), NEW n \in 0..Len(s)
    PROVE  At(s, n) = "good" <=> \E i \in 1..n : IsRequest(SubSeq(s, 1, i))
<1>1. ASSUME NEW i \in 1..n PROVE IsRequest(SubSeq(s, 1, i)) <=> At(s, i) = "good" /\ At(s, i - 1) # "good"
  <2>t. PICK t : t = SubSeq(s, 1, i)
    OBVIOUS
  <2>1. t \in Seq(S) /\ Len(t) = i /\ \A m \in 0..i : At(t, m) = At(s, m)
    BY <2>t, PrefixAt
  <2>2. IsRequest(t) <=> Taken(t)
    BY <2>1, TakesRequests
  <2>3. i \in 0..i /\ i - 1 \in 0..i /\ i >= 1
    OBVIOUS
  <2>4. QED
    BY <2>t, <2>1, <2>2, <2>3 DEF Taken
<1>2. ASSUME NEW i \in 1..n, IsRequest(SubSeq(s, 1, i)) PROVE At(s, n) = "good"
  BY <1>1, <1>2, GoodStays
<1>3. ASSUME At(s, n) = "good" PROVE \E i \in 1..n : IsRequest(SubSeq(s, 1, i))
  <2> DEFINE T == {i \in 0..n : At(s, i) = "good"}
  <2>1. T \in SUBSET Nat /\ T # {}
    BY <1>3
  <2>2. PICK i \in T : \A j \in T : i <= j
    <3> HIDE DEF T
    <3>1. QED
      BY <2>1, LeastOf
  <2>3. i # 0
    BY <2>2, AtStart
  <2>4. i \in 1..n /\ i - 1 \in 0..n /\ ~(i <= i - 1)
    BY <2>2, <2>3
  <2>5. At(s, i - 1) # "good"
    BY <2>2, <2>4
  <2>6. QED
    BY <1>1, <2>2, <2>4, <2>5
<1>4. QED
  BY <1>2, <1>3

\* The parser of httpserver2 is where it would be had all that was read come at once.
HttpInv(k) ==
    /\ input[k] \in Requests \cup {<<>>}
    /\ parser[k] = Trace(Start, input[k])[pos[k]]
    /\ reply[k] = "handled" <=> parser[k].at = "good"
    /\ stage[k] # "trapped"

WasRead(k) == SubSeq(input[k], 1, pos[k])

\* A connection of cwf that reads has read nothing.
CgiInv(k) ==
    /\ input[k] \in Records \cup {<<>>}
    /\ stage[k] = "reading" => pos[k] = 0 /\ reply[k] = "none"
    /\ reply[k] = "handled" => IsRecord(WasRead(k)) \/ IsRecord(WasRead(k) \o <<"params">>)
    /\ IsRecord(WasRead(k)) => (stage[k] # "dropped" \/ k \in broken) /\ stage[k] # "trapped"

ConnectionInv(k) ==
    /\ stage[k] \in {"away", "waiting"} => pos[k] = 0 /\ reply[k] = "none" /\ parser[k] = Start
    /\ IF cwf THEN CgiInv(k) ELSE HttpInv(k)

ServerInv == TypeOK /\ \A k \in Clients : ConnectionInv(k)

LEMMA StatesAre == "good" \in States /\ "bad" \in States /\ Start \in [at : States, headers : BOOLEAN]
BY StartType DEF States, ParserStates

\* io_services are taken in turn.
LEMMA NextService ==
    ASSUME NEW P \in Nat \ {0}, NEW x \in 0..P - 1
    PROVE  (x + 1) % P = IF x + 1 = P THEN 0 ELSE x + 1
<1>1. CASE x + 1 = P
  <2>1. P % P = 0
    OBVIOUS
  <2>2. QED
    BY <1>1, <2>1
<1>2. CASE x + 1 # P
  <2>1. x + 1 \in 0..P - 1
    BY <1>2
  <2>2. QED
    BY <1>2, <2>1
<1>3. QED
  BY <1>1, <1>2

LEMMA Inputs == Requests \cup {<<>>} \subseteq Seq(Chars) /\ Records \cup {<<>>} \subseteq Seq(CgiUnits)
<1>1. <<>> \in Seq(Chars) /\ <<>> \in Seq(CgiUnits)
  OBVIOUS
<1>2. \A s \in Requests \cup {<<>>} : s \in Seq(Chars)
  BY <1>1, ServerAssumption
<1>3. \A s \in Records \cup {<<>>} : s \in Seq(CgiUnits)
  BY <1>1, ServerAssumption
<1>4. QED
  BY <1>2, <1>3

LEMMA InitOK == ASSUME Init PROVE ServerInv
<1>1. PoolSize \in Nat \ {0}
  BY ServerAssumption
<1>2. turn \in 0..PoolSize - 1 /\ fresh \in 0..PoolSize - 1 /\ turn = (fresh + 1) % PoolSize
  <2>1. fresh = 1 % PoolSize /\ turn = 2 % PoolSize
    BY DEF Init
  <2>2. CASE PoolSize = 1
    BY <2>1, <2>2
  <2>3. CASE PoolSize # 1
    <3>1. fresh = 1
      <4>1. 0 \in 0..PoolSize - 1 /\ 0 + 1 = 1 /\ 0 + 1 # PoolSize
        BY <1>1, <2>3
      <4>2. QED
        BY <1>1, <2>1, <4>1, NextService
    <3>2. fresh \in 0..PoolSize - 1 /\ fresh + 1 = 2
      BY <1>1, <2>3, <3>1
    <3>3. turn = (fresh + 1) % PoolSize
      BY <2>1, <3>2
    <3>4. (fresh + 1) % PoolSize = IF fresh + 1 = PoolSize THEN 0 ELSE fresh + 1
      BY <1>1, <3>2, NextService
    <3>5. turn \in 0..PoolSize - 1
      BY <1>1, <2>3, <3>2, <3>3, <3>4
    <3>6. QED
      BY <3>2, <3>3, <3>5
  <2>4. QED
    BY <2>2, <2>3
<1>3. Len(<<>>) = 0 /\ <<>> \in Seq(Chars)
  OBVIOUS
<1>4. 0 \in 0..PoolSize - 1
  BY <1>1
<1>5. TypeOK
  <2>1. cwf \in BOOLEAN /\ accepting \in BOOLEAN /\ stopped \in BOOLEAN /\ broken \subseteq Clients /\ failed \in BOOLEAN
    BY DEF Init
  <2>2. /\ service \in [Clients -> 0..PoolSize - 1] /\ stage \in [Clients -> Stages]
        /\ input \in [Clients -> Requests \cup Records \cup {<<>>}]
        /\ pos \in [Clients -> Nat] /\ \A k \in Clients : pos[k] <= Len(input[k])
        /\ reply \in [Clients -> {"none", "handled", "bad_request"}]
    BY <1>3, <1>4 DEF Init, Stages
  <2>3. parser \in [Clients -> [at : States, headers : BOOLEAN]]
    BY StatesAre DEF Init
  <2>4. QED
    BY <1>2, <2>1, <2>2, <2>3 DEF TypeOK
<1>6. ASSUME NEW k \in Clients PROVE ConnectionInv(k)
  <2>1. stage[k] = "away" /\ input[k] = <<>> /\ pos[k] = 0 /\ parser[k] = Start /\ reply[k] = "none"
    BY DEF Init
  <2>2. parser[k] = Trace(Start, input[k])[pos[k]]
    <3>e. PICK e : e = <<>>
      OBVIOUS
    <3>1. Trace(Start, e)[0] = Start
      BY <1>3, <3>e, TraceSteps
    <3>2. QED
      BY <2>1, <3>e, <3>1
  <2>3. HttpInv(k)
    BY <2>1, <2>2 DEF HttpInv, Start
  <2>4. CgiInv(k)
    BY <2>1 DEF CgiInv
  <2>5. QED
    BY <2>1, <2>3, <2>4 DEF ConnectionInv
<1>7. QED
  BY <1>5, <1>6 DEF ServerInv

\* What a step leaves alone keeps what is so of it.
LEMMA Same ==
    ASSUME NEW j \in Clients, ConnectionInv(j), cwf' = cwf, stage'[j] = stage[j], input'[j] = input[j], pos'[j] = pos[j],
           parser'[j] = parser[j], reply'[j] = reply[j], j \in broken => j \in broken'
    PROVE  ConnectionInv(j)'
<1>1. HttpInv(j) => HttpInv(j)'
  BY DEF HttpInv
<1>2. CgiInv(j) => CgiInv(j)'
  BY DEF CgiInv, WasRead
<1>3. QED
  BY <1>1, <1>2 DEF ConnectionInv

LEMMA ConnectStep == ASSUME ServerInv, NEW k \in Clients, Connect(k) PROVE ServerInv'
<1>1. PICK s : input' = [input EXCEPT ![k] = s] /\ s \in IF cwf THEN Records ELSE Requests
  BY DEF Connect
<1>2. /\ stage[k] = "away" /\ stage' = [stage EXCEPT ![k] = "waiting"]
      /\ UNCHANGED <<cwf, accepting, stopped, turn, fresh, service, pos, parser, reply, broken, failed>>
  BY DEF Connect, To, serverVars
<1>3. TypeOK /\ ConnectionInv(k)
  BY DEF ServerInv
<1>4. pos[k] = 0 /\ reply[k] = "none" /\ parser[k] = Start
  BY <1>2, <1>3 DEF ConnectionInv
<1>5. s \in Seq(Chars) \cup Seq(CgiUnits)
  BY <1>1, Inputs
<1>6. input'[k] = s /\ stage'[k] = "waiting"
  BY <1>1, <1>2, <1>3 DEF TypeOK
<1>7. TypeOK'
  <2>1. input' \in [Clients -> Requests \cup Records \cup {<<>>}]
    BY <1>1, <1>3 DEF TypeOK
  <2>2. \A j \in Clients : pos'[j] <= Len(input'[j])
    <3>1. Len(s) \in Nat
      BY <1>5
    <3>2. QED
      BY <1>1, <1>2, <1>3, <1>4, <3>1 DEF TypeOK
  <2>3. stage' \in [Clients -> Stages]
    BY <1>2, <1>3 DEF TypeOK, Stages
  <2>4. QED
    BY <1>2, <1>3, <2>1, <2>2, <2>3 DEF TypeOK
<1>8. ConnectionInv(k)'
  <2>1. CASE cwf
    <3>1. SubSeq(s, 1, 0) = <<>> /\ Len(<<>>) = 0 /\ ~IsRecord(<<>>)
      BY <1>5 DEF IsRecord
    <3>2. CgiInv(k)'
      BY <1>1, <1>2, <1>4, <1>6, <2>1, <3>1 DEF CgiInv, WasRead
    <3>3. QED
      BY <1>2, <1>4, <1>6, <2>1, <3>2 DEF ConnectionInv
  <2>2. CASE ~cwf
    <3>1. s \in Requests /\ s \in Seq(Chars)
      BY <1>1, <2>2, Inputs
    <3>2. Trace(Start, s)[0] = Start
      BY <3>1, TraceSteps
    <3>3. HttpInv(k)'
      BY <1>2, <1>4, <1>6, <3>1, <3>2 DEF HttpInv, Start
    <3>4. QED
      BY <1>2, <1>4, <1>6, <2>2, <3>3 DEF ConnectionInv
  <2>3. QED
    BY <2>1, <2>2
<1>9. ASSUME NEW j \in Clients, j # k PROVE ConnectionInv(j)'
  <2>1. ConnectionInv(j) /\ input'[j] = input[j] /\ stage'[j] = stage[j]
    BY <1>1, <1>2, <1>3, <1>9 DEF ServerInv, TypeOK
  <2>2. QED
    BY <1>2, <2>1, Same
<1>10. QED
  BY <1>7, <1>8, <1>9 DEF ServerInv

LEMMA AcceptStep == ASSUME ServerInv, NEW k \in Clients, Accept(k) PROVE ServerInv'
<1>1. /\ stage[k] = "waiting" /\ stage' = [stage EXCEPT ![k] = "reading"]
      /\ service' = [service EXCEPT ![k] = fresh] /\ fresh' = turn /\ turn' = NextTurn
      /\ UNCHANGED <<cwf, accepting, stopped, input, pos, parser, reply, broken, failed>>
  BY DEF Accept, To
<1>2. TypeOK /\ ConnectionInv(k)
  BY DEF ServerInv
<1>3. TypeOK'
  <2>1. PoolSize \in Nat \ {0} /\ turn \in 0..PoolSize - 1 /\ fresh \in 0..PoolSize - 1
    BY <1>2, ServerAssumption DEF TypeOK
  <2>2. turn' = (turn + 1) % PoolSize
    BY <1>1, <2>1, NextService DEF NextTurn
  <2>3. turn' \in 0..PoolSize - 1
    BY <1>1, <2>1 DEF NextTurn
  <2>4. service' \in [Clients -> 0..PoolSize - 1] /\ stage' \in [Clients -> Stages]
    BY <1>1, <1>2, <2>1 DEF TypeOK, Stages
  <2>5. QED
    BY <1>1, <1>2, <2>1, <2>2, <2>3, <2>4 DEF TypeOK
<1>4. ConnectionInv(k)'
  <2>1. stage'[k] = "reading"
    BY <1>1, <1>2 DEF TypeOK
  <2>2. pos[k] = 0 /\ reply[k] = "none"
    BY <1>1, <1>2 DEF ConnectionInv
  <2>3. HttpInv(k) => HttpInv(k)'
    BY <1>1 DEF HttpInv
  <2>4. CgiInv(k) => CgiInv(k)'
    BY <1>1, <2>1, <2>2 DEF CgiInv, WasRead
  <2>5. QED
    BY <1>1, <1>2, <2>1, <2>3, <2>4 DEF ConnectionInv
<1>5. ASSUME NEW j \in Clients, j # k PROVE ConnectionInv(j)'
  <2>1. ConnectionInv(j) /\ stage'[j] = stage[j]
    BY <1>1, <1>2, <1>5 DEF ServerInv, TypeOK
  <2>2. QED
    BY <1>1, <2>1, Same
<1>6. QED
  BY <1>3, <1>4, <1>5 DEF ServerInv

\* A piece brings the parser to where it is at the end of the piece.
LEMMA PieceRead ==
    ASSUME ServerInv, ~cwf, NEW k \in Clients, NEW e \in pos[k] + 1..Len(input[k])
    PROVE  /\ input[k] \in Seq(Chars) /\ pos[k] \in 0..e - 1 /\ e \in 1..Len(input[k])
           /\ parser[k] = Trace(Start, input[k])[pos[k]]
           /\ After(parser[k], Piece(k, e)) = Trace(Start, input[k])[e]
           /\ After(parser[k], Piece(k, e)) \in ParserStates
<1>1. HttpInv(k) /\ pos[k] \in Nat /\ pos[k] <= Len(input[k])
  BY DEF ServerInv, ConnectionInv, TypeOK
<1>s. PICK s : s = input[k]
  OBVIOUS
<1>b. PICK b : b = pos[k]
  OBVIOUS
<1>2. s \in Seq(Chars) /\ parser[k] = Trace(Start, s)[b]
  BY <1>1, <1>s, <1>b, Inputs DEF HttpInv
<1>3. b \in 0..Len(s) /\ e \in b..Len(s) /\ b \in 0..e - 1 /\ e \in 1..Len(s) /\ e \in 0..Len(s)
  BY <1>1, <1>2, <1>s, <1>b
<1>p. PICK p : p = Trace(Start, s)[b]
  OBVIOUS
<1>t. PICK t : t = SubSeq(s, b + 1, e)
  OBVIOUS
<1>4. t \in Seq(Chars) /\ Len(t) = e - b /\ \A i \in 0..e - b : Trace(p, t)[i] = Trace(Start, s)[b + i]
  BY <1>2, <1>3, <1>p, <1>t, TracePiece
<1>5. e - b \in 0..e - b /\ b + (e - b) = e
  BY <1>3
<1>6. After(p, t) = Trace(Start, s)[e]
  <2>1. After(p, t) = Trace(p, t)[Len(t)]
    BY <1>4, TraceSteps
  <2>2. QED
    BY <1>4, <1>5, <2>1
<1>7. After(p, t) \in ParserStates
  BY <1>2, <1>3, <1>6, StartType, TraceType
<1>8. Piece(k, e) = t /\ parser[k] = p
  BY <1>2, <1>s, <1>b, <1>t, <1>p DEF Piece
<1>9. QED
  BY <1>2, <1>3, <1>6, <1>7, <1>8, <1>s, <1>b

LEMMA ReadStep == ASSUME ServerInv, NEW k \in Clients, Read(k) PROVE ServerInv'
<1>1. PICK e \in pos[k] + 1..Len(input[k]) : Verdict(k, After(parser[k], Piece(k, e)), e)
  BY DEF Read
<1>2. ~cwf /\ stage[k] = "reading" /\ TypeOK /\ ConnectionInv(k) /\ HttpInv(k)
  BY DEF Read, ServerInv, ConnectionInv
<1>p. PICK p : p = After(parser[k], Piece(k, e))
  OBVIOUS
<1>3. /\ input[k] \in Seq(Chars) /\ pos[k] \in 0..e - 1 /\ e \in 1..Len(input[k])
      /\ parser[k] = Trace(Start, input[k])[pos[k]]
      /\ p = Trace(Start, input[k])[e] /\ p \in ParserStates
  BY <1>2, <1>p, PieceRead
<1>4. /\ pos' = [pos EXCEPT ![k] = e] /\ parser' = [parser EXCEPT ![k] = p]
      /\ \/ p.at = "good" /\ reply' = [reply EXCEPT ![k] = "handled"] /\ stage' = [stage EXCEPT ![k] = "writing"]
         \/ p.at = "bad" /\ reply' = [reply EXCEPT ![k] = "bad_request"] /\ stage' = [stage EXCEPT ![k] = "writing"]
         \/ p.at \notin {"good", "bad"} /\ reply' = reply /\ stage' = stage
      /\ UNCHANGED <<cwf, accepting, stopped, turn, fresh, service, input, broken, failed>>
  BY <1>1, <1>p DEF Verdict, To, serverVars
<1>5. TypeOK'
  <2>1. pos' \in [Clients -> Nat] /\ \A j \in Clients : pos'[j] <= Len(input'[j])
    <3>1. e \in Nat /\ e <= Len(input[k])
      BY <1>3
    <3>2. QED
      BY <1>2, <1>4, <3>1 DEF TypeOK
  <2>2. parser' \in [Clients -> [at : States, headers : BOOLEAN]]
    BY <1>2, <1>3, <1>4 DEF TypeOK, ParserStates
  <2>3. reply' \in [Clients -> {"none", "handled", "bad_request"}] /\ stage' \in [Clients -> Stages]
    BY <1>2, <1>4 DEF TypeOK, Stages
  <2>4. QED
    BY <1>2, <1>4, <2>1, <2>2, <2>3 DEF TypeOK
<1>6. ConnectionInv(k)'
  <2>1. pos'[k] = e /\ parser'[k] = p /\ input'[k] = input[k] /\ stage'[k] \in {"reading", "writing"}
    BY <1>2, <1>4 DEF TypeOK
  <2>2. parser[k].at = "good" => p.at = "good"
    <3>s. PICK s : s = input[k]
      OBVIOUS
    <3>b. PICK b : b = pos[k]
      OBVIOUS
    <3>1. b \in 0..Len(s) /\ e \in b..Len(s) /\ s \in Seq(Chars)
      BY <1>3, <3>s, <3>b
    <3>2. At(s, b) = "good" => At(s, e) = "good"
      BY <3>1, GoodStays
    <3>3. QED
      BY <1>3, <3>s, <3>b, <3>2 DEF At
  <2>3. reply[k] = "handled" <=> parser[k].at = "good"
    BY <1>2 DEF HttpInv
  <2>4. reply'[k] = "handled" <=> p.at = "good"
    BY <1>2, <1>4, <2>2, <2>3 DEF TypeOK
  <2>5. HttpInv(k)'
    BY <1>2, <1>3, <2>1, <2>4 DEF HttpInv
  <2>6. QED
    BY <1>2, <1>4, <2>1, <2>5 DEF ConnectionInv
<1>7. ASSUME NEW j \in Clients, j # k PROVE ConnectionInv(j)'
  <2>1. /\ ConnectionInv(j) /\ pos'[j] = pos[j] /\ parser'[j] = parser[j] /\ stage'[j] = stage[j]
        /\ reply'[j] = reply[j]
    BY <1>2, <1>4, <1>7 DEF ServerInv, TypeOK
  <2>2. QED
    BY <1>4, <2>1, Same
<1>8. QED
  BY <1>5, <1>6, <1>7 DEF ServerInv

LEMMA Prefix3 ==
    ASSUME NEW s \in Seq(CgiUnits), NEW n \in 0..Len(s)
    PROVE  IsRecord(SubSeq(s, 1, n)) <=> n >= 3 /\ s[1] = "begin" /\ s[2] = "header" /\ s[3] = "params"
<1>t. PICK t : t = SubSeq(s, 1, n)
  OBVIOUS
<1>1. t \in Seq(CgiUnits) /\ Len(t) = n /\ \A i \in 1..n : t[i] = s[i]
  BY <1>t
<1>2. ASSUME n >= 3 PROVE IsRecord(t) <=> s[1] = "begin" /\ s[2] = "header" /\ s[3] = "params"
  <2>u. PICK u : u = SubSeq(t, 1, 3)
    OBVIOUS
  <2>1. u \in Seq(CgiUnits) /\ Len(u) = 3 /\ u[1] = t[1] /\ u[2] = t[2] /\ u[3] = t[3]
    BY <1>1, <1>2, <2>u
  <2>2. u = <<"begin", "header", "params">> <=> u[1] = "begin" /\ u[2] = "header" /\ u[3] = "params"
    BY <2>1
  <2>3. t[1] = s[1] /\ t[2] = s[2] /\ t[3] = s[3]
    BY <1>1, <1>2
  <2>4. IsRecord(t) <=> u = <<"begin", "header", "params">>
    BY <1>1, <1>2, <2>u DEF IsRecord
  <2>5. QED
    BY <2>1, <2>2, <2>3, <2>4
<1>3. QED
  BY <1>1, <1>2, <1>t DEF IsRecord

\* What Process makes of n units is what they begin with, but for the parameters it
\* takes from before.
LEMMA Processed ==
    ASSUME NEW s \in Seq(CgiUnits), NEW n \in 0..Len(s)
    PROVE  LET t == SubSeq(s, 1, n) IN
           /\ "good" \in Process(s, n) => IsRecord(t) \/ IsRecord(t \o <<"params">>)
           /\ Process(s, n) \cap {"bad", "trap"} # {} => ~IsRecord(t)
<1>t. PICK t : t = SubSeq(s, 1, n)
  OBVIOUS
<1>1. IsRecord(t) <=> n >= 3 /\ s[1] = "begin" /\ s[2] = "header" /\ s[3] = "params"
  BY <1>t, Prefix3
<1>2. ASSUME "good" \in Process(s, n) PROVE IsRecord(t) \/ IsRecord(t \o <<"params">>)
  <2>1. n >= 2 /\ s[1] = "begin" /\ s[2] = "header" /\ (n = 2 \/ s[3] = "params")
    <3>1. ~(n < 2 \/ s[1] # "begin" \/ s[2] # "header") /\ (n = 2 \/ s[3] = "params")
      BY <1>2, Zenon DEF Process
    <3>2. QED
      BY <3>1
  <2>2. CASE n = 2
    <3>u. PICK u : u = t \o <<"params">>
      OBVIOUS
    <3>1. t \in Seq(CgiUnits) /\ Len(t) = 2 /\ t[1] = s[1] /\ t[2] = s[2]
      BY <1>t, <2>2
    <3>p. PICK w : w = <<"params">>
      OBVIOUS
    <3>w. w \in Seq(CgiUnits) /\ Len(w) = 1 /\ w[1] = "params"
      BY <3>p DEF CgiUnits
    <3>c. u = t \o w
      BY <3>u, <3>p
    <3>2. u \in Seq(CgiUnits) /\ Len(u) = 3 /\ u[1] = t[1] /\ u[2] = t[2] /\ u[3] = "params"
      <4>1. /\ u \in Seq(CgiUnits) /\ Len(u) = Len(t) + Len(w)
            /\ \A i \in 1..Len(t) + Len(w) : u[i] = IF i <= Len(t) THEN t[i] ELSE w[i - Len(t)]
        BY <3>c, <3>w, <3>1, ConcatProperties
      <4>2. QED
        BY <3>w, <3>1, <4>1
    <3>3. SubSeq(u, 1, Len(u)) = u
      BY <3>2
    <3>4. IsRecord(SubSeq(u, 1, 3))
      BY <2>1, <3>1, <3>2, Prefix3
    <3>5. QED
      BY <3>u, <3>2, <3>3, <3>4
  <2>3. CASE n # 2
    BY <1>1, <2>1, <2>3
  <2>4. QED
    BY <2>2, <2>3
<1>3. ASSUME Process(s, n) \cap {"bad", "trap"} # {} PROVE ~IsRecord(t)
  <2>1. (n < 2 \/ s[1] # "begin" \/ s[2] # "header") \/ n = 2 \/ s[3] # "params"
    BY <1>3, Zenon DEF Process
  <2>2. QED
    BY <1>1, <2>1
<1>4. QED
  BY <1>t, <1>2, <1>3

LEMMA HandleReadStep == ASSUME ServerInv, NEW k \in Clients, HandleRead(k) PROVE ServerInv'
<1>1. PICK n \in 0..Len(input[k]) :
        /\ pos' = [pos EXCEPT ![k] = n]
        /\ \/ /\ "good" \in Process(input[k], n)
              /\ reply' = [reply EXCEPT ![k] = "handled"] /\ stage' = [stage EXCEPT ![k] = "writing"]
           \/ /\ "bad" \in Process(input[k], n)
              /\ stage' = [stage EXCEPT ![k] = "dropped"] /\ reply' = reply
           \/ /\ "trap" \in Process(input[k], n)
              /\ stage' = [stage EXCEPT ![k] = "trapped"] /\ reply' = reply
  BY DEF HandleRead, To
<1>2. /\ cwf /\ stage[k] = "reading"
      /\ UNCHANGED <<cwf, accepting, stopped, turn, fresh, service, input, parser, broken, failed>>
  BY DEF HandleRead, serverVars
<1>3. TypeOK /\ ConnectionInv(k) /\ CgiInv(k)
  BY <1>2 DEF ServerInv, ConnectionInv
<1>s. PICK s : s = input[k]
  OBVIOUS
<1>t. PICK t : t = SubSeq(s, 1, n)
  OBVIOUS
<1>4. s \in Seq(CgiUnits) /\ n \in 0..Len(s) /\ reply[k] = "none"
  BY <1>2, <1>3, <1>s, Inputs DEF CgiInv
<1>5. /\ "good" \in Process(s, n) => IsRecord(t) \/ IsRecord(t \o <<"params">>)
      /\ Process(s, n) \cap {"bad", "trap"} # {} => ~IsRecord(t)
  BY <1>4, <1>t, Processed
<1>6. TypeOK'
  <2>1. pos' \in [Clients -> Nat] /\ \A j \in Clients : pos'[j] <= Len(input'[j])
    <3>1. n \in Nat /\ n <= Len(input[k])
      BY <1>4, <1>s
    <3>2. QED
      BY <1>1, <1>2, <1>3, <3>1 DEF TypeOK
  <2>2. reply' \in [Clients -> {"none", "handled", "bad_request"}] /\ stage' \in [Clients -> Stages]
    BY <1>1, <1>3 DEF TypeOK, Stages
  <2>3. QED
    BY <1>2, <1>3, <2>1, <2>2 DEF TypeOK
<1>7. ConnectionInv(k)'
  <2>1. /\ pos'[k] = n /\ input'[k] = s /\ WasRead(k)' = t /\ stage'[k] \in {"writing", "dropped", "trapped"}
        /\ reply'[k] = "handled" => "good" \in Process(s, n)
        /\ stage'[k] \in {"dropped", "trapped"} => Process(s, n) \cap {"bad", "trap"} # {}
    <3>1. pos'[k] = n /\ input'[k] = s
      BY <1>1, <1>2, <1>3, <1>s DEF TypeOK
    <3>2. WasRead(k)' = t
      BY <1>t, <3>1 DEF WasRead
    <3>3. /\ stage'[k] \in {"writing", "dropped", "trapped"}
          /\ reply'[k] = "handled" => "good" \in Process(s, n)
          /\ stage'[k] \in {"dropped", "trapped"} => Process(s, n) \cap {"bad", "trap"} # {}
      BY <1>1, <1>3, <1>4, <1>s DEF TypeOK
    <3>4. QED
      BY <3>1, <3>2, <3>3
  <2>2. CgiInv(k)'
    <3>1. s \in Records \cup {<<>>}
      BY <1>3, <1>s DEF CgiInv
    <3>2. QED
      BY <1>2, <1>5, <2>1, <3>1 DEF CgiInv
  <2>3. QED
    BY <1>2, <2>1, <2>2 DEF ConnectionInv
<1>8. ASSUME NEW j \in Clients, j # k PROVE ConnectionInv(j)'
  <2>1. ConnectionInv(j) /\ pos'[j] = pos[j] /\ stage'[j] = stage[j] /\ reply'[j] = reply[j]
    BY <1>1, <1>3, <1>8 DEF ServerInv, TypeOK
  <2>2. QED
    BY <1>2, <2>1, Same
<1>9. QED
  BY <1>6, <1>7, <1>8 DEF ServerInv

\* A connection that ends keeps what is so of it.
LEMMA EndStep ==
    ASSUME ServerInv, NEW k \in Clients, NEW s \in {"answered", "dropped"}, stage[k] \in {"reading", "writing"},
           stage' = [stage EXCEPT ![k] = s], s = "dropped" => k \in broken', broken \subseteq broken',
           UNCHANGED <<cwf, input, pos, parser, reply>>
    PROVE  \A j \in Clients : ConnectionInv(j)'
<1>1. TypeOK /\ ConnectionInv(k)
  BY DEF ServerInv
<1>2. stage'[k] = s
  BY <1>1 DEF TypeOK
<1>3. ConnectionInv(k)'
  <2>1. HttpInv(k) => HttpInv(k)'
    BY DEF HttpInv
  <2>2. CgiInv(k) => CgiInv(k)'
    BY <1>2 DEF CgiInv, WasRead
  <2>3. QED
    BY <1>1, <1>2, <2>1, <2>2 DEF ConnectionInv
<1>4. ASSUME NEW j \in Clients, j # k PROVE ConnectionInv(j)'
  <2>1. ConnectionInv(j) /\ stage'[j] = stage[j]
    BY <1>1, <1>4 DEF ServerInv, TypeOK
  <2>2. QED
    BY <2>1, Same
<1>5. QED
  BY <1>3, <1>4

LEMMA WrittenStep == ASSUME ServerInv, NEW k \in Clients, Written(k) PROVE ServerInv'
<1>1. /\ stage[k] = "writing" /\ stage' = [stage EXCEPT ![k] = "answered"]
      /\ UNCHANGED <<cwf, accepting, stopped, turn, fresh, service, input, pos, parser, reply, broken, failed>>
  BY DEF Written, To, serverVars
<1>2. \A j \in Clients : ConnectionInv(j)'
  BY <1>1, EndStep
<1>3. TypeOK'
  BY <1>1 DEF ServerInv, TypeOK, Stages
<1>4. QED
  BY <1>2, <1>3 DEF ServerInv

LEMMA BreaksStep == ASSUME ServerInv, NEW k \in Clients, Breaks(k) PROVE ServerInv'
<1>1. /\ stage[k] \in {"reading", "writing"} /\ stage' = [stage EXCEPT ![k] = "dropped"]
      /\ broken' = broken \cup {k}
      /\ UNCHANGED <<cwf, accepting, stopped, turn, fresh, service, input, pos, parser, reply, failed>>
  BY DEF Breaks, To, serverVars
<1>2. \A j \in Clients : ConnectionInv(j)'
  BY <1>1, EndStep
<1>3. TypeOK'
  BY <1>1 DEF ServerInv, TypeOK, Stages
<1>4. QED
  BY <1>2, <1>3 DEF ServerInv

LEMMA Stutter ==
    ASSUME ServerInv, UNCHANGED <<cwf, stage, input, pos, parser, reply, broken>>, TypeOK'
    PROVE  ServerInv'
<1>1. ASSUME NEW j \in Clients PROVE ConnectionInv(j)'
  BY Same DEF ServerInv
<1>2. QED
  BY <1>1 DEF ServerInv

LEMMA ServerStep == ASSUME ServerInv, [Next]_vars PROVE ServerInv'
<1>1. CASE AcceptFails
  <2>1. TypeOK'
    BY <1>1 DEF AcceptFails, ServerInv, TypeOK
  <2>2. QED
    BY <1>1, <2>1, Stutter DEF AcceptFails
<1>2. CASE Stop
  <2>1. TypeOK'
    BY <1>2 DEF Stop, ServerInv, TypeOK
  <2>2. QED
    BY <1>2, <2>1, Stutter DEF Stop
<1>3. CASE UNCHANGED vars
  <2>1. TypeOK'
    BY <1>3 DEF vars, ServerInv, TypeOK
  <2>2. QED
    BY <1>3, <2>1, Stutter DEF vars
<1>4. CASE \E k \in Clients : Connect(k) \/ Accept(k) \/ Read(k) \/ HandleRead(k) \/ Written(k) \/ Breaks(k)
  BY <1>4, ConnectStep, AcceptStep, ReadStep, HandleReadStep, WrittenStep, BreaksStep
<1>5. QED
  BY <1>1, <1>2, <1>3, <1>4 DEF Next

LEMMA ServerAnswers == ASSUME ServerInv PROVE RightAnswer
<1>1. ASSUME NEW k \in Clients, cwf
      PROVE  LET read == SubSeq(input[k], 1, pos[k]) IN
             /\ reply[k] = "handled" => IsRecord(read) \/ IsRecord(read \o <<"params">>)
             /\ IsRecord(read) => (stage[k] # "dropped" \/ k \in broken) /\ stage[k] # "trapped"
  BY <1>1 DEF ServerInv, ConnectionInv, CgiInv, WasRead
<1>2. ASSUME NEW k \in Clients, ~cwf
      PROVE  /\ reply[k] = "handled" <=> \E i \in 1..pos[k] : IsRequest(SubSeq(input[k], 1, i))
             /\ parser[k].at \in {"header_lws", "header_name", "space_before_header_value", "header_value"} =>
                  parser[k].headers
             /\ stage[k] # "trapped"
  <2>1. HttpInv(k) /\ pos[k] \in Nat /\ pos[k] <= Len(input[k])
    BY <1>2 DEF ServerInv, ConnectionInv, TypeOK
  <2>s. PICK s : s = input[k]
    OBVIOUS
  <2>n. PICK n : n = pos[k]
    OBVIOUS
  <2>2. s \in Seq(Chars) /\ n \in 0..Len(s) /\ parser[k] = Trace(Start, s)[n]
    BY <2>1, <2>s, <2>n, Inputs DEF HttpInv
  <2>3. At(s, n) = "good" <=> \E i \in 1..n : IsRequest(SubSeq(s, 1, i))
    BY <2>2, GoodIsPrefix
  <2>4. HeaderInv(s, n, parser[k])
    BY <2>2, Forward
  <2>5. reply[k] = "handled" <=> At(s, n) = "good"
    BY <2>1, <2>2 DEF HttpInv, At
  <2>6. reply[k] = "handled" <=> \E i \in 1..pos[k] : IsRequest(SubSeq(input[k], 1, i))
    BY <2>3, <2>5, <2>s, <2>n
  <2>7. QED
    BY <2>1, <2>4, <2>6 DEF HeaderInv, HttpInv
<1>3. QED
  BY <1>1, <1>2, Zenon DEF RightAnswer

LEMMA ServerAlways == Spec => []ServerInv
BY InitOK, ServerStep, PTL DEF Spec

\* The variables keep their types, and io_services are taken in turn.
THEOREM TypeCorrect == Spec => []TypeOK
<1>1. ServerInv => TypeOK
  BY DEF ServerInv
<1>2. QED
  BY <1>1, ServerAlways, PTL

\* Whatever is sent, by however many clients and in whatever pieces, is handled just
\* when it begins with a request; cwf answers only what had come.
THEOREM RightAnswers == Spec => []RightAnswer
BY ServerAnswers, ServerAlways, PTL
=============================================================================
