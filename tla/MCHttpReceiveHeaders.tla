------------------------ MODULE MCHttpReceiveHeaders ------------------------
(***************************************************************************)
(* Instantiates HttpReceiveHeaders for TLC: one header line of every kind  *)
(* http_handle_header() tells apart, with the values that take each of its *)
(* branches.                                                               *)
(***************************************************************************)
EXTENDS HttpReceiveHeaders

\* Content-Length values: one that parses, one that parse_size() rejects.
MCLengthValues == {<<"4">>, <<"+">>}

MCHeaderLines ==
       [name : {"WWW-Authenticate"}, value : {"Basic"}]
  \cup [name : {"Set-Cookie"}, value : {"c"}]
  \cup [name : {"Content-Length"}, value : MCLengthValues]
  \cup [name : {"Transfer-Encoding"}, value : {"identity", "chunked"}]
  \cup [name : {"Content-Encoding"}, value : {"gzip", "br"}]
  \cup [name : {"Connection"}, value : {"close"}]
  \cup [name : {"Location"}, value : {"http://b/", "::"}]

\* Only the framing headers, with values that parse: a conflict the
\* classifier reports is then between two framing headers of the block.
MCFramingLines ==
       [name : {"Content-Length"}, value : {<<"4">>}]
  \cup [name : {"Transfer-Encoding"}, value : {"chunked"}]

MCAuthTypes == {AuthNone, "Basic"}
MCValidUrls == {"http://b/"}

\* _avs_http_redirect() failing with -1.
MCRedirectError == -1
=============================================================================
