-------------------------------- MODULE Fetch --------------------------------
(***************************************************************************)
(* Loading the rule sources (load_sources, filter.rs): files, and texts    *)
(* fetched over HTTP (fetch_url, fetch.rs), with redirects, a limit on the *)
(* length, and a minute for each source.  A source that fails is skipped.  *)
(*                                                                         *)
(* A text is its number of frames.  What is on the other side of the       *)
(* network may fail, send anything, or never answer.  A body's end is      *)
(* marked by its length or its last chunk, or it is the end of the         *)
(* connection, which TLS marks and plain TCP does not.                     *)
(***************************************************************************)
EXTENDS Bootstrap

CONSTANTS
  Urls,            \* where a redirect may lead: [scheme, host]
  Lengths,         \* of texts
  MAX_BODY,        \* of a text that is fetched
  MAX_REDIRECTS

ASSUME FetchAssumption ==
  /\ Lengths \subseteq Nat /\ MAX_BODY \in Nat /\ MAX_REDIRECTS \in Nat

VARIABLES
  source,   \* the index of the source being loaded
  fetch,    \* the request in progress
  merged    \* what has been merged: [source, got, length, marked]

fetchVars == <<source, fetch, merged>>

NoFetch == [stage |-> "none", url |-> [scheme |-> "http", host |-> "literal"], redirects |-> 0,
            ips |-> <<>>, length |-> 0, framed |-> TRUE, got |-> 0]

FetchInit == source = 1 /\ fetch = NoFetch /\ merged = {}

To(stage) == fetch' = [fetch EXCEPT !.stage = stage]

\* load_sources goes on with the next source, with this one's text or without.
Skip ==
  /\ source' = source + 1 /\ fetch' = NoFetch /\ lookup' = NoLookup
  /\ UNCHANGED <<merged, config>>
Merge(got, length, marked) ==
  /\ merged' = merged \cup
       {[source |-> source, got |-> got, length |-> length, marked |-> marked]}
  /\ source' = source + 1 /\ fetch' = NoFetch
  /\ UNCHANGED <<lookup, config>>

Loading == source <= Len(config.rule_sources)

LoadSource ==
  /\ Loading /\ fetch.stage = "none"
  /\ LET s == config.rule_sources[source]
     IN  CASE s.kind = "path" -> Skip \/ (\E n \in Lengths : Merge(n, n, TRUE))
           [] s.kind = "url" ->
                /\ fetch' = [NoFetch EXCEPT !.stage = "request", !.url = s.url]
                /\ UNCHANGED <<source, merged, lookup, config>>
           [] s.kind = "neither" -> Skip
-----------------------------------------------------------------------------
(* fetch_url                                                               *)

\* The next round of the loop.
Request ==
  /\ fetch.stage = "request"
  /\ IF fetch.redirects > MAX_REDIRECTS \/ fetch.url.scheme = "other"
        \/ (fetch.url.host = "named" /\ config.bootstrap = <<>>)
     THEN Skip
     ELSE /\ IF fetch.url.host = "named"
             THEN To("resolve") /\ lookup' = Lookup(<<"A", "AAAA">>)
             ELSE /\ fetch' = [fetch EXCEPT !.stage = "connect", !.ips = <<Min(V4)>>]
                  /\ UNCHANGED lookup
          /\ UNCHANGED <<source, merged, config>>

Resolved ==
  /\ fetch.stage = "resolve" /\ ~InLookup
  /\ IF lookup.ips = {} THEN Skip
     ELSE /\ fetch' = [fetch EXCEPT !.stage = "connect", !.ips = resolve_ips]
          /\ lookup' = NoLookup /\ UNCHANGED <<source, merged, config>>

\* A connection is made, and a TLS session on it where the scheme says so.
Connects ==
  /\ fetch.stage = "connect"
  /\ To(IF fetch.url.scheme = "https" THEN "handshake" ELSE "response")
  /\ UNCHANGED <<source, merged, lookup, config>>
ConnectFails ==
  /\ fetch.stage = "connect"
  /\ IF Len(fetch.ips) <= 1 THEN Skip
     ELSE fetch' = [fetch EXCEPT !.ips = Tail(@)] /\ UNCHANGED <<source, merged, lookup, config>>
Handshake ==
  /\ fetch.stage = "handshake" /\ To("response")
  /\ UNCHANGED <<source, merged, lookup, config>>

\* A redirect is absolute, or leads to the same scheme and host.
Redirect(url) ==
  /\ fetch.stage = "response"
  /\ fetch' = [NoFetch EXCEPT !.stage = "request", !.url = url,
                              !.redirects = fetch.redirects + 1]
  /\ UNCHANGED <<source, merged, lookup, config>>
\* The body has a length or chunks (framed), or lasts until the connection ends.
Success(n, framed) ==
  /\ fetch.stage = "response"
  /\ fetch' = [fetch EXCEPT !.stage = "body", !.length = n, !.framed = framed]
  /\ UNCHANGED <<source, merged, lookup, config>>

\* A TLS session that ends without a close_notify is an error (external: rustls).
Marked == fetch.framed \/ fetch.url.scheme = "https"

\* Mutant: what is past the limit is left out.
FrameTruncated ==
  /\ fetch.stage = "body" /\ fetch.got < fetch.length
  /\ IF fetch.got + 1 > MAX_BODY THEN Merge(fetch.got, fetch.length, Marked)
     ELSE fetch' = [fetch EXCEPT !.got = @ + 1] /\ UNCHANGED <<source, merged, lookup, config>>

Frame ==
  /\ fetch.stage = "body" /\ fetch.got < fetch.length
  /\ IF fetch.got + 1 > MAX_BODY THEN Skip
     ELSE fetch' = [fetch EXCEPT !.got = @ + 1] /\ UNCHANGED <<source, merged, lookup, config>>

\* The stream of frames ends without an error: at the marked end of the body, or,
\* if nothing marks it, wherever the connection does.
BodyEnds ==
  /\ fetch.stage = "body" /\ (Marked => fetch.got = fetch.length)
  /\ Merge(fetch.got, fetch.length, Marked)

\* The handshake, the request or the body fails; a redirect leads nowhere, or
\* the status is no success.
FetchFails == fetch.stage \in {"handshake", "response", "body"} /\ Skip

\* Mutant: the minute is for the headers.
FetchTimeoutHeaders == fetch.stage \notin {"none", "body"} /\ Skip

\* The minute is over, whatever is in progress.
FetchTimeout == fetch.stage # "none" /\ Skip

FetchStep ==
  \/ LoadSource \/ Request \/ Resolved \/ Connects \/ ConnectFails \/ Handshake
  \/ \E url \in Urls \cup {fetch.url} : Redirect(url)
  \/ \E n \in Lengths, framed \in BOOLEAN : Success(n, framed)
  \/ Frame \/ BodyEnds \/ FetchFails \/ FetchTimeout
-----------------------------------------------------------------------------
(* Properties                                                              *)

\* The rules of a source are those of its whole text: neither the limit, a
\* redirect nor the timeout ever leaves a part of a text to the rule set, which
\* would let pass what the rest blocks; nor does a broken connection, unless it
\* is plain HTTP and its end is the only end the body has, where a part is taken
\* for the whole.  And no text that was fetched is above the limit (fetch_url).
WholeIfMarked ==
  \A t \in merged :
    /\ t.got = t.length \/ (~t.marked /\ t.got < t.length)
    /\ config.rule_sources[t.source].kind = "url" => t.got <= MAX_BODY
=============================================================================
