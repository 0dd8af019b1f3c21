--------------------------- MODULE MCBrowserPool ---------------------------
(* Two callers, two sessions and a pool of one client: model values.        *)
EXTENDS BrowserPool
=============================================================================
