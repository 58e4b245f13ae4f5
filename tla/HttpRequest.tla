---------------------------- MODULE HttpRequest -----------------------------
(***************************************************************************)
(* What a request is taken for and who answers it: ParseHttpRequest and    *)
(* HandleRead of library/TcpConnection.hpp, RegisterHandler and            *)
(* BindDynamicHandler of TcpServer.hpp, and the services that register     *)
(* there: HttpServer.hpp, ResourceServer.hpp and PortProxyServer.hpp.      *)
(*                                                                         *)
(* One connection.  Its requests are parsed in the loop's thread and       *)
(* answered by a task of the pool, which reads the context of the moment.  *)
(* A URL is a sequence of words, each as long as one character; sending    *)
(* the answers is left to module Reactor.                                  *)
(***************************************************************************)
EXTENDS Naturals, SequencesExt

CONSTANTS HttpMessages,   \* what one read may bring
          Files,          \* the files that exist: pairs of a directory and a path
          KnownSuffixes,  \* the suffixes of the table pairArray
          MaxReads        \* bound: reads

\* A message is as much as there is of its first line, its headers and its body.
HttpBody == [kind : {"refused", "deep", "list", "nested", "named"}, image : Seq(STRING)]
HttpMessage == [complete : {"none", "line", "all"}, words : 0 .. 3, method : STRING,
                url : Seq(STRING), version : STRING, connection : STRING, body : HttpBody]
ASSUME HttpMessagesAssumption == HttpMessages \subseteq HttpMessage
ASSUME MaxReadsAssumption == MaxReads \in Nat

VARIABLES registered,     \* serviceHandlers_: pairs of a service and a handler
          coverAll,       \* coverAllService_
          context,        \* httpRequestContext_
          bindedHandler,  \* BindedHandler_
          reqHandler,     \* reqHandler_: a pair, <<>> while it is empty
          httpTasks,      \* tasks of this connection in the pool
          connected,      \* not disConnected_
          asked,          \* what has been read so far
          answers,        \* what has been written to bufferOut_ so far
          reqHealthy,     \* reqHealthy_
          terminated,     \* an exception has left a worker: the process is gone
          overlapped      \* a request was read while a task waited

httpVars == <<registered, coverAll, context, bindedHandler, reqHandler, httpTasks, connected,
              asked, answers, reqHealthy, terminated, overlapped>>

\* The callbacks of a service are registered beside its request handlers.
Callbacks == {"ReadMessageHandler", "SendOverHandler", "CloseConnHandler", "ErrorConnHandler"}

\* What is not there: a word, a header, the first character in Find.
NoText == ""

\* A body as JSON: an empty one is refused by the reader.
NoBody == [kind |-> "refused", image |-> <<>>]

HttpInit == /\ registered = {} /\ coverAll = FALSE
            /\ context = [method |-> NoText, url |-> <<>>, version |-> NoText, connection |-> NoText,
                          body |-> NoBody, service |-> NoText]
            /\ bindedHandler = FALSE /\ reqHandler = <<>> /\ httpTasks = 0 /\ connected = TRUE
            /\ asked = <<>> /\ answers = <<>> /\ reqHealthy = FALSE /\ terminated = FALSE
            /\ overlapped = FALSE

-----------------------------------------------------------------------------
(* Registration, before the first connection.                              *)

RegisterHandler(service, handlers, cover) ==
    /\ asked = <<>>
    /\ coverAll => cover
    /\ coverAll' = (coverAll \/ cover)
    /\ registered' = registered \cup ({IF cover THEN "CoverService" ELSE service} \X handlers)
    /\ UNCHANGED <<context, bindedHandler, reqHandler, httpTasks, connected, asked, answers,
                   reqHealthy, terminated, overlapped>>

\* HttpServer and ResourceServer may share a TcpServer; a PortProxyServer has its own.
RegisterHttp == RegisterHandler("HttpService", Callbacks \cup {"HttpHandler"}, FALSE)
RegisterResource == RegisterHandler("ResourceService", Callbacks \cup {"GetImageResource"}, FALSE)
RegisterProxy == registered = {} /\ RegisterHandler("CoverService", Callbacks \cup {"CoverHandler"}, TRUE)

Services == {r[1] : r \in registered}

-----------------------------------------------------------------------------
(* Reading a request.                                                      *)

\* The words of the first line replace those of the last request, as far as
\* there are any; a header that was there is not replaced.
Parse(m) ==
    IF m.complete = "none" THEN context
    ELSE [method |-> IF m.words >= 1 THEN m.method ELSE context.method,
          url |-> IF m.words >= 2 THEN m.url ELSE context.url,
          version |-> IF m.words >= 3 THEN m.version ELSE context.version,
          connection |-> IF m.complete = "all" /\ context.connection = NoText THEN m.connection
                         ELSE context.connection,
          body |-> IF m.complete = "all" THEN m.body ELSE context.body,
          service |-> context.service]

\* std::string::find of a character, from the second one on; 0 when absent.
Find(url, c) == SelectInSeq([i \in 1 .. Len(url) |-> IF i = 1 THEN NoText ELSE url[i]], LAMBDA x : x = c)

\* Changes of HandlerName: the query belongs to the name.
HandlerNameWithQuery(rest) == Tail(rest)

\* The rest of the URL begins with the slash after the service.  With a query,
\* the name is given the length that the query has, with its question mark.
HandlerName(rest) ==
    LET q == Find(rest, "?")
    IN  IF q = 0 THEN Tail(rest) ELSE SubSeq(rest, 2, Len(rest) - q + 2)

\* The service and the handler that a URL is bound to, without those that are
\* not registered; <<>> when the binding fails.
Bind(url) ==
    LET slash == Find(url, "/")
        service == SubSeq(url, 2, slash - 1)
        named == slash > 0 /\ \E s \in Services : service = <<s>>
        handler == HandlerName(SubSeq(url, slash, Len(url)))
    IN  IF named
        THEN IF \E h \in {r[2] : r \in {r \in registered : r[1] = service[1]}} : handler = <<h>>
             THEN <<service[1], handler[1]>>
             ELSE IF coverAll THEN <<service[1], "CoverHandler">> ELSE <<>>
        ELSE IF "HttpService" \in Services \/ coverAll THEN <<"HttpService", "HttpHandler">>
        ELSE <<>>

Bound(b) == IF coverAll THEN <<"CoverService", "CoverHandler">> ELSE b

\* A page that was found, with the Connection header of the request, and the
\* two kinds of error page: those of TcpConnection and HttpServer, and those of
\* ResourceServer and PortProxyServer, which have a status line of their own.
Page(what, c) == [what |-> what, version |-> c.version, connection |-> c.connection]
HttpError(what, c) == [what |-> what,
                       version |-> IF c.version = NoText THEN "HTTP/1.1" ELSE c.version,
                       connection |-> "Keep-Alive"]
ServiceError(what) == [what |-> what, version |-> "HTTP/1.1", connection |-> "close"]

\* A request that is not understood closes a connection that was bound.
ReadMalformed(m) ==
    /\ m.complete # "all"
    /\ context' = Parse(m)
    /\ IF bindedHandler THEN connected' = FALSE /\ UNCHANGED answers
       ELSE answers' = Append(answers, HttpError("400", Parse(m))) /\ UNCHANGED connected
    /\ UNCHANGED <<bindedHandler, reqHandler, httpTasks>>

\* HandleRead, BindDynamicHandler and HandleMessage.
ReadRequest(m) ==
    LET c == Parse(m)
        b == Bind(c.url)
    IN  /\ m.complete = "all"
        /\ IF b = <<>>
           THEN /\ bindedHandler' = FALSE
                /\ context' = c
                /\ answers' = Append(answers, HttpError("400", c))
                /\ UNCHANGED <<reqHandler, httpTasks>>
           ELSE /\ bindedHandler' = TRUE
                /\ reqHandler' = Bound(b)
                /\ context' = [c EXCEPT !.service = b[1]]
                /\ httpTasks' = httpTasks + 1
                /\ UNCHANGED answers
        /\ UNCHANGED connected

Read(m) == /\ registered # {} /\ connected /\ ~terminated /\ Len(asked) < MaxReads
           /\ asked' = Append(asked, m)
           /\ reqHealthy' = (m.complete = "all")
           /\ overlapped' = (overlapped \/ httpTasks > 0)
           /\ ReadMalformed(m) \/ ReadRequest(m)
           /\ UNCHANGED <<registered, coverAll, terminated>>

-----------------------------------------------------------------------------
(* Answering it.                                                           *)

\* getContentTypeByPath looks for the last point of "../../../resource/", the
\* directory and the path: without one in the path the suffix holds slashes, and
\* is unknown.
Suffix(root, path) ==
    IF Contains(path, ".") THEN SubSeq(path, SelectLastInSeq(path, LAMBDA x : x = "."), Len(path))
    ELSE <<"./resource/", root>> \o path
ContentTypeKnown(root, path) == Suffix(root, path) \in KnownSuffixes
Found(root, path) == ContentTypeKnown(root, path) /\ <<root, path>> \in Files

\* SendResource of the two services.
SendFile(path, c) == IF Found("www/", path) THEN Page(path, c) ELSE HttpError("404", c)
SendImage(path, c) == IF Found("images/", path) THEN Page(path, c) ELSE ServiceError("404")

HttpProcess(c) ==
    LET q == Find(c.url, "?")
        path == IF q = 0 THEN c.url ELSE SubSeq(c.url, 1, q - 1)
        file == IF path = <<"/">> THEN <<"index", ".", "html">> ELSE path
    IN  IF c.method \notin {"GET", "POST"} THEN HttpError("501", c)
        ELSE IF path = <<"/", "hello">> THEN Page("hello", c)
        ELSE SendFile(file, c)

\* What is left of the process when the body is nested deeper than the reader
\* allows, is not an object, or gives imageName a list or an object: the reader,
\* operator[] or asString throws, and no caller catches it.
Terminates == [what |-> "std::terminate", version |-> NoText, connection |-> NoText]

\* A missing name and null are the empty name.
GetImageResource(c) ==
    CASE c.body.kind = "refused" -> ServiceError("400")
      [] c.body.kind \in {"deep", "list", "nested"} -> Terminates
      [] OTHER -> SendImage(c.body.image, c)

\* requestToOut: the request that the proxy sends on, to a target of the service.
Forwarded(c) == Page(<<c.service, c.method, c.url>>, c)

Response(service, c) == CASE service = "HttpService" -> HttpProcess(c)
                          [] service = "ResourceService" -> GetImageResource(c)
                          [] OTHER -> Forwarded(c)
BadRequest(service, c) == IF service = "HttpService" THEN HttpError("400", c) ELSE ServiceError("400")

\* The task of ResourceServer does not ask whether the connection is there.
HandlerRuns == connected \/ reqHandler[1] = "ResourceService"

EndTask == /\ httpTasks > 0 /\ ~terminated
           /\ UNCHANGED <<registered, coverAll, context, bindedHandler, reqHandler, connected, asked,
                          reqHealthy, overlapped>>

\* The callbacks of a service do nothing, but for HandleMessage.
ServeNothing == /\ EndTask
                /\ ~HandlerRuns \/ reqHandler[2] \in Callbacks \ {"ReadMessageHandler"}
                /\ httpTasks' = httpTasks - 1
                /\ UNCHANGED <<answers, terminated>>

\* HandleMessage in a worker: another task, or an error page.
ServeMessage ==
    /\ EndTask
    /\ HandlerRuns /\ reqHandler[2] = "ReadMessageHandler"
    /\ IF reqHealthy THEN UNCHANGED <<httpTasks, answers>>
       ELSE httpTasks' = httpTasks - 1 /\ answers' = Append(answers, BadRequest(reqHandler[1], context))
    /\ UNCHANGED terminated

ServeRequest ==
    LET response == Response(reqHandler[1], context)
    IN  /\ EndTask
        /\ HandlerRuns /\ reqHandler[2] \notin Callbacks
        /\ IF response = Terminates THEN terminated' = TRUE /\ UNCHANGED <<httpTasks, answers>>
           ELSE httpTasks' = httpTasks - 1 /\ answers' = Append(answers, response) /\ UNCHANGED terminated

HttpNext == \/ RegisterHttp \/ RegisterResource \/ RegisterProxy
            \/ ServeNothing \/ ServeMessage \/ ServeRequest
            \/ \E m \in HttpMessages : Read(m)

HttpSpec == HttpInit /\ [][HttpNext]_httpVars

-----------------------------------------------------------------------------
(* Properties.                                                             *)

HttpTypeOK == /\ registered \subseteq {"HttpService", "ResourceService", "CoverService"}
                     \X (Callbacks \cup {"HttpHandler", "GetImageResource", "CoverHandler"})
              /\ {coverAll, bindedHandler, connected, reqHealthy, terminated, overlapped} \subseteq BOOLEAN
              /\ reqHandler \in registered \cup {<<>>}
              /\ httpTasks \in 0 .. MaxReads
              /\ Len(answers) + httpTasks <= Len(asked)

\* A client that sends whole requests, one after the other, and names no callback
\* of a service, gets for each an answer to this request, from the service it names or
\* else from the web site: except that a URL with a service and a query reaches
\* its handler only when the query, its question mark included, is as long as the
\* handler's name, and then whatever stands between them; that the proxy knows no
\* service but HttpService and CoverService; that the Connection header is the first
\* that was ever sent; and that the process does not outlive the request for an image
\* whose body is a document but has no place for its name (TcpConnection.hpp:911,
\* TcpServer.hpp:157,182, ResourceServer.hpp:110).
InOrder == ~overlapped /\ \A i \in DOMAIN asked :
                            /\ asked[i].complete = "all" /\ asked[i].words = 3
                            /\ \A w \in Callbacks : ~Contains(asked[i].url, w)
FirstConnection(ms, n) ==
    LET given == {i \in 1 .. n : ms[i].connection # NoText}
    IN  IF given = {} THEN NoText ELSE ms[Min(given)].connection

\* What follows the first character of a URL, which is not looked at.
Names(url, words) == url # <<>> /\ IsPrefix(words, Tail(url))
Reaches(url, service, handler) ==
    /\ Names(url, <<service, "/", handler>>)
    /\ Len(url) = 4 \/ \A i \in 2 .. Len(url) : url[i] = "?" <=> i = Len(url)
\* The answer that is due to a message, and the one that is due to the i-th request.
Due(m, connection) ==
    LET c == [method |-> m.method, url |-> m.url, version |-> m.version,
              connection |-> connection, body |-> m.body]
        named == {s \in Services : Names(m.url, <<s, "/">>)}
        s == CHOOSE s \in named : TRUE
    IN  IF coverAll THEN Page(<<IF named = {} THEN "HttpService" ELSE s, m.method, m.url>>, c)
        ELSE IF named = {} THEN IF "HttpService" \in Services THEN HttpProcess(c) ELSE HttpError("400", c)
        ELSE IF \A r \in registered : r[1] = s => ~Reaches(m.url, s, r[2]) THEN HttpError("400", c)
        ELSE IF s = "HttpService" THEN HttpProcess(c) ELSE GetImageResource(c)
Wanted(i) == Due(asked[i], FirstConnection(asked, i))
AnswersAsked ==
    InOrder => /\ Len(answers) + httpTasks = Len(asked)
               /\ \A i \in DOMAIN answers : answers[i] = Wanted(i)
               /\ terminated => Wanted(Len(asked)) = Terminates
=============================================================================
