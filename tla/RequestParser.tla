--------------------------- MODULE RequestParser ---------------------------
(***************************************************************************)
(* The request parser of the example server (cwf/httpserver2,              *)
(* request_parser.cpp): one character of input after the other through the *)
(* states of an automaton.  Characters are the classes it tells apart.     *)
(***************************************************************************)
EXTENDS Naturals, Sequences

\* "token": any other character of a method or a header name; "sep": any other
\* tspecial; "ctl": any other control character; "high": above 127.
Chars == {"token", "H", "T", "P", "digit", ".", "/", ":", "SP", "TAB", "sep",
          "CR", "LF", "ctl", "high"}

\* is_char, and neither is_ctl nor is_tspecial
Token == {"token", "H", "T", "P", "digit", "."}

\* not is_ctl, which is false of the negative values above 127 have
Visible == Chars \ {"TAB", "CR", "LF", "ctl"}

\* consume: in state e[1], the characters e[2] lead to state e[3].
Edges == {
    <<"method_start",              Token,              "method">>,
    <<"method",                    {"SP"},             "uri">>,
    <<"method",                    Token,              "method">>,
    <<"uri_start",                 Visible,            "uri">>,
    <<"uri",                       {"SP"},             "http_version_h">>,
    <<"uri",                       Visible \ {"SP"},   "uri">>,
    <<"http_version_h",            {"H"},              "http_version_t_1">>,
    <<"http_version_t_1",          {"T"},              "http_version_t_2">>,
    <<"http_version_t_2",          {"T"},              "http_version_p">>,
    <<"http_version_p",            {"P"},              "http_version_slash">>,
    <<"http_version_slash",        {"/"},              "http_version_major_start">>,
    <<"http_version_major_start",  {"digit"},          "http_version_major">>,
    <<"http_version_major",        {"."},              "http_version_minor_start">>,
    <<"http_version_major",        {"digit"},          "http_version_major">>,
    <<"http_version_minor_start",  {"digit"},          "http_version_minor">>,
    <<"http_version_minor",        {"CR"},             "expecting_newline_1">>,
    <<"http_version_minor",        {"digit"},          "http_version_minor">>,
    <<"expecting_newline_1",       {"LF"},             "header_line_start">>,
    <<"header_line_start",         {"CR"},             "expecting_newline_3">>,
    <<"header_line_start",         Token,              "header_name">>,
    <<"header_lws",                {"CR"},             "expecting_newline_2">>,
    <<"header_lws",                {"SP", "TAB"},      "header_lws">>,
    <<"header_lws",                Visible \ {"SP"},   "header_value">>,
    <<"header_name",               {":"},              "space_before_header_value">>,
    <<"header_name",               Token,              "header_name">>,
    <<"space_before_header_value", {"SP"},             "header_value">>,
    <<"header_value",              {"CR"},             "expecting_newline_2">>,
    <<"header_value",              Visible,            "header_value">>,
    <<"expecting_newline_2",       {"LF"},             "header_line_start">>,
    <<"expecting_newline_3",       {"LF"},             "good">>}

States == {e[1] : e \in Edges} \cup {"good", "bad"}

\* state_, and whether the request has a header yet.
Start == [at |-> "method_start", headers |-> FALSE]

\* consume: "good" is true, "bad" is false, the other states are indeterminate.  A
\* line that begins with a blank continues the last header, if there is one.
Consume(p, ch) ==
    LET Taken == {e \in Edges : e[1] = p.at /\ ch \in e[2]} IN
    IF p.at = "header_line_start" /\ ch \in {"SP", "TAB"} /\ p.headers
    THEN [p EXCEPT !.at = "header_lws"]
    ELSE IF Taken = {} THEN [p EXCEPT !.at = "bad"]
    ELSE LET to == (CHOOSE e \in Taken : TRUE)[3] IN
         [at |-> to, headers |-> p.headers \/ to = "header_name"]

\* The loop of parse: what becomes of the parser p on s.
After(p, s) ==
    LET after[i \in 0..Len(s)] ==
            IF i = 0 THEN p
            ELSE LET q == after[i - 1] IN
                 IF q.at \in {"good", "bad"} THEN q ELSE Consume(q, s[i])
    IN  after[Len(s)]

Run(s) == After(Start, s)

------------------------------------------------------------------------------
(* What a request is, without states: lines that end in CR LF, the first a   *)
(* request line, the last empty, the others headers and their continuations. *)

Within(s, i, j, set) == \A k \in i..j : s[k] \in set

\* The first n characters are a request line.
RequestLine(s, n) ==
    \E i, j \in 1..n :
        /\ 1 < i /\ i < j /\ s[i] = "SP" /\ s[j] = "SP"
        /\ Within(s, 1, i - 1, Token) /\ Within(s, i + 1, j - 1, Visible \ {"SP"})
        /\ \E d \in j + 7..n - 1 :
            /\ \A k \in 1..5 : s[j + k] = <<"H", "T", "T", "P", "/">>[k]
            /\ s[d] = "."
            /\ Within(s, j + 6, d - 1, {"digit"}) /\ Within(s, d + 1, n, {"digit"})

\* The characters from b to e are a header, or continue one.
HeaderLine(s, b, e) ==
    \E i \in b + 1..e - 1 :
        /\ Within(s, b, i - 1, Token) /\ s[i] = ":" /\ s[i + 1] = "SP"
        /\ Within(s, i + 2, e, Visible)

Continuation(s, b, e) ==
    \E i \in b..e : Within(s, b, i, {"SP", "TAB"}) /\ Within(s, i + 1, e, Visible)

\* The positions where lines end and begin; a line from its begin to its end.
Ends(s)   == {i \in 1..Len(s) - 1 : s[i] = "CR" /\ s[i + 1] = "LF"}
Begins(s) == {1} \cup {i + 2 : i \in Ends(s)}
Lines(s)  == {l \in Begins(s) \X Ends(s) : l[1] <= l[2] /\ ~\E d \in Ends(s) : l[1] <= d /\ d < l[2]}

IsRequest(s) ==
    /\ Len(s) >= 4 /\ {Len(s) - 3, Len(s) - 1} \subseteq Ends(s)
    /\ \A l \in Lines(s) :
        LET b == l[1]  e == l[2] - 1 IN
        \/ b = 1 /\ RequestLine(s, e)
        \/ 1 < b /\ HeaderLine(s, b, e)
        \/ Continuation(s, b, e) /\ \E a \in Begins(s) : 1 < a /\ a < b
        \/ b = Len(s) - 1
==============================================================================
