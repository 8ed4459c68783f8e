------------------------------ MODULE Filters ------------------------------
(***************************************************************************)
(* internal/middleware/security: the XSS and the SQL injection filter.     *)
(* They look at the same parts of a request, one after the other, and a    *)
(* request either of them objects to is answered 400.                      *)
(*                                                                         *)
(* A text is the set of the features it has that a pattern of a filter     *)
(* finds.  A body is what its sender made it (type, size, chunked or with  *)
(* a Content-Length, its text as sent, and the texts of its values once    *)
(* decoded, files excepted), and how far it has been read here: whether    *)
(* the bytes are still there to be read, and whether the form is parsed.   *)
(*                                                                         *)
(* Left out: the patterns themselves, the headers the XSS filter sets, the *)
(* Sanitize functions, which no request goes through.                      *)
(***************************************************************************)
EXTENDS Integers

\* As it stands or once decoded, what a pattern of either filter matches;
\* several dangerous words; the name of a dangerous function.
XSSFeatures == {"markup", "encodedMarkup"}
SQLFeatures == {"statement", "encodedStatement", "dangerousWords", "functionName"}
Texts == SUBSET (XSSFeatures \cup SQLFeatures)

BodyTypes == {"json", "form", "multipart", "other"}
Bodies == [type : BodyTypes, size : Nat, chunked : BOOLEAN, text : Texts, values : Texts,
           readable : BOOLEAN, unread : BOOLEAN, parsed : BOOLEAN]

IsXSSAttack(text) == text \cap XSSFeatures # {}
IsSQLInjection(text) == text \cap SQLFeatures # {}

\* What io.ReadAll gets.
Remaining(b) == IF b.unread THEN b.text ELSE {}

\* ParseForm and ParseMultipartForm read the body to its end, once; it is not
\* put back.
Parsed(b) == [b EXCEPT !.unread = FALSE, !.parsed = TRUE]
ParseFails(b) == ~b.parsed /\ ~b.readable

\* Fault: the body of a JSON request is read and not restored.
ConsumedByXSS(b) ==
  CASE b.type = "json" -> [b EXCEPT !.unread = FALSE]
    [] b.type \in {"form", "multipart"} -> Parsed(b)
    [] OTHER -> b

\* The body after the XSS filter, and after the other, which reads alike.
AfterXSS(b) == IF b.type \in {"form", "multipart"} THEN Parsed(b) ELSE b
AfterSQL(b) == IF b.type \in {"form", "multipart"} THEN Parsed(b) ELSE b

\* checkRequestBody: an unreadable body is answered like an attack.
XSSInBody(b) ==
  CASE b.type = "json" -> ~b.readable \/ IsXSSAttack(Remaining(b)) \/ IsXSSAttack(b.values)
    [] b.type \in {"form", "multipart"} -> ParseFails(b) \/ IsXSSAttack(b.values)
    [] OTHER -> FALSE

SQLInBody(b) ==
  CASE b.type = "json" -> ~b.readable \/ IsSQLInjection(Remaining(b))
    [] b.type \in {"form", "multipart"} -> ParseFails(b) \/ IsSQLInjection(b.values)
    [] OTHER -> FALSE

\* The methods whose body is looked at; of a GET the query is, of any other
\* method nothing.
WithBody == {"POST", "PUT", "PATCH"}

XSSRefuses(method, query, b) ==
  \/ method = "GET" /\ IsXSSAttack(query)
  \/ method \in WithBody /\ XSSInBody(b)

SQLRefuses(method, query, b) ==
  \/ method = "GET" /\ IsSQLInjection(query)
  \/ method \in WithBody /\ SQLInBody(b)
=============================================================================
