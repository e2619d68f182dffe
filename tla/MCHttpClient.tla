---------------------------- MODULE MCHttpClient ----------------------------
(* Small instances of HttpClient: the sets of requests are model values in *)
(* the configurations, the status codes are given here.                    *)
EXTENDS HttpClient

MCStatusCodes == {200, 404}
MCOneStatusCode == {200}
=============================================================================
