---------------------------- MODULE MCHttpServer ----------------------------
(* TLC instance of HttpServer, and RequestParser against what a request is.  *)
EXTENDS HttpServer, TLC

CONSTANTS k1, k2

NewLine == <<"CR", "LF">>
FirstLine == <<"P", "SP", "/", "SP", "H", "T", "T", "P", "/", "digit", ".", "digit">> \o NewLine
HeadLine == <<"token", ":", "SP", "high">> \o NewLine
FoldLine == <<"TAB", "token">> \o NewLine

ShortRequest == FirstLine \o NewLine
LongRequest == FirstLine \o HeadLine \o FoldLine \o NewLine

\* A request followed by more, a continuation of no header, a request cut off.
RequestsValue == {LongRequest \o <<"token">>, FirstLine \o <<"TAB">>, FirstLine}

RecordsValue == {<<"begin", "header", "params", "bad">>, <<"begin", "header", "bad">>,
                 <<"begin", "header", "long">>, <<"bad", "header", "params">>}

\* The automaton takes what a request is, and nothing else: every string that is
\* one character off the long request, and every header section of up to five
\* characters.
Accepts(s) == Run(s).at = "good" /\ Run(SubSeq(s, 1, Len(s) - 1)).at # "good"

Corrupted == {[LongRequest EXCEPT ![i] = ch] : i \in DOMAIN LongRequest, ch \in Chars}

HeaderChars == {"token", ":", "SP", "TAB", "CR", "LF"}

ASSUME ParserTakesRequests ==
    /\ \A s \in Corrupted \cup RequestsValue \cup {ShortRequest} : Accepts(s) <=> IsRequest(s)
    /\ \A n \in 0..5 : \A h \in [1..n -> HeaderChars] :
        LET s == FirstLine \o h IN Accepts(s) <=> IsRequest(s)
==============================================================================
