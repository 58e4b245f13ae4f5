------------------------------- MODULE MCData ------------------------------
(***************************************************************************)
(* The lists of TimerManager, the scheduler of coroutines, the choice of a *)
(* proxy's target, the requests of a connection and JSON, for TLC: what is *)
(* promised of their data in every state.  They share no state: component  *)
(* names the one that moves and the others stay in a first state, so that  *)
(* the states of the run are the sum of theirs.                            *)
(***************************************************************************)
EXTENDS TimerManager, Coroutine, PortProxy, HttpRequest, JsonValue, JsonText, JsonNumber,
        JsonWriter, JsonCharReader, TLC

VARIABLE component

dataVars == <<component, vars, coroutineVars, proxyVars, httpVars,
              valueVars, textVars, numberVars, readerVars, charVars>>

TimerSymmetry == Permutations(Timers)

\* Where a component may begin in several states, one of them while it stays.
Still == /\ component # "timers" => /\ timeout = [t \in Timers |-> CHOOSE x \in Timeouts : TRUE]
                                    /\ once = [t \in Timers |-> TRUE]
         /\ component # "number" => ~negative
         /\ component # "chars" => settings = SetDefaults

DataInit == /\ component \in {"timers", "coroutine", "proxy", "http", "value",
                           "text", "number", "reader", "chars"}
            /\ Init /\ CoroutineInit /\ ProxyInit /\ HttpInit
            /\ ValueInit /\ TextInit /\ NumberInit /\ ReaderInit /\ CharReaderInit
            /\ Still

Moves(name, next, others) == component = name /\ next /\ UNCHANGED <<component, others>>

TimersMove == Moves("timers", Next,
    <<coroutineVars, proxyVars, httpVars, valueVars,
      textVars, numberVars, readerVars, charVars>>)
CoroutineMoves == Moves("coroutine", CoroutineNext,
    <<vars, proxyVars, httpVars, valueVars,
      textVars, numberVars, readerVars, charVars>>)
ProxyMoves == Moves("proxy", ProxyNext,
    <<vars, coroutineVars, httpVars, valueVars,
      textVars, numberVars, readerVars, charVars>>)
HttpMoves == Moves("http", HttpNext,
    <<vars, coroutineVars, proxyVars, valueVars,
      textVars, numberVars, readerVars, charVars>>)
ValueMoves == Moves("value", ValueNext,
    <<vars, coroutineVars, proxyVars, httpVars,
      textVars, numberVars, readerVars, charVars>>)
TextMoves == Moves("text", TextNext,
    <<vars, coroutineVars, proxyVars, httpVars,
      valueVars, numberVars, readerVars, charVars>>)
NumberMoves == Moves("number", NumberNext,
    <<vars, coroutineVars, proxyVars, httpVars,
      valueVars, textVars, readerVars, charVars>>)
ReaderMoves == Moves("reader", ReaderNext,
    <<vars, coroutineVars, proxyVars, httpVars,
      valueVars, textVars, numberVars, charVars>>)
CharsMove == Moves("chars", CharReaderNext,
    <<vars, coroutineVars, proxyVars, httpVars,
      valueVars, textVars, numberVars, readerVars>>)

DataNext == \/ TimersMove \/ CoroutineMoves \/ ProxyMoves \/ HttpMoves
            \/ ValueMoves \/ TextMoves \/ NumberMoves \/ ReaderMoves \/ CharsMove

DataSpec == DataInit /\ [][DataNext]_dataVars

\* The type invariant of every component.
ComponentsTypeOK == /\ TypeOK /\ CoroutineTypeOK /\ ProxyTypeOK /\ HttpTypeOK
                    /\ ValueTypeOK /\ TextTypeOK /\ NumberTypeOK /\ ReaderTypeOK /\ CharReaderTypeOK

-----------------------------------------------------------------------------
(* Values of the constants.                                                *)

Request(method, url, version, connection) ==
    [method |-> method, url |-> url, version |-> version, connection |-> connection,
     body |-> NoBody, words |-> 3, complete |-> "all"]
Home == Request("GET", <<"/">>, "HTTP/1.1", "")
Image(body) == [Request("POST", <<"/", "ResourceService", "/", "GetImageResource">>, "HTTP/1.0", "close")
                EXCEPT !.body = body]

Named(image) == [kind |-> "named", image |-> image]
Bodies == {Named(<<"a", ".", "png">>), Named(<<"b", ".", "png">>), Named(<<>>), NoBody,
           [kind |-> "nested", image |-> <<>>]}

\* A page, a service, a method the server does not know, names with a query, the
\* name of a callback, a first line of one word, and a message cut short; images
\* that are there and that are not, and bodies without a name.
Messages == {Image(b) : b \in Bodies} \cup {Home,
    Request("GET", <<"/", "hello">>, "HTTP/1.1", "Keep-Alive"),
    Request("PUT", <<"/", "a", ".", "html", "?", "x">>, "HTTP/1.1", ""),
    Request("GET", <<"/", "a", ".", "html", "?", "x">>, "HTTP/1.1", ""),
    Request("GET", <<"/", "ResourceService", "/", "GetImageResource", "?">>, "HTTP/1.1", ""),
    Request("GET", <<"/", "ResourceService", "/", "GetImageResource", "?", "x">>, "HTTP/1.1", ""),
    Request("GET", <<"/", "ResourceService", "/", "GetImageResource", "x", "?">>, "HTTP/1.1", ""),
    Request("GET", <<"/", "ResourceService", "/", "ReadMessageHandler">>, "HTTP/1.1", ""),
    [Home EXCEPT !.words = 1],
    [Image(NoBody) EXCEPT !.complete = "line"]}
FilesThere == {<<"www/", <<"index", ".", "html">>>>, <<"www/", <<"/", "a", ".", "html">>>>,
               <<"www/", <<"/", "hello">>>>, <<"images/", <<"a", ".", "png">>>>}
TypesKnown == {<<".", "html">>, <<".", "png">>}

Lenient == {[SetDefaults EXCEPT !.allowDroppedNullPlaceholders = TRUE, !.allowNumericKeys = TRUE,
                                !.allowSingleQuotes = TRUE, !.allowSpecialFloats = TRUE],
            [StrictMode EXCEPT !.allowDroppedNullPlaceholders = TRUE]}

\* "a0" is a name with a NUL in it.
NamesInOrder == <<"", "a", "a0">>
CStrings == [n \in Strings |-> IF n = "a0" THEN "a" ELSE n]
=============================================================================
