--------------------------- MODULE MCBrowserTasks ---------------------------
(* A small instance of BrowserTasks for TLC: two legacy tasks of one site,   *)
(* the first of which can meet everything, and a task without a site.        *)
EXTENDS BrowserTasks, TLC

CONSTANTS t1, t2, t3, shop, own3

SharedSite == (t1 :> shop) @@ (t2 :> shop) @@ (t3 :> own3)

Lives ==
  (t1 :> Events) @@ (t2 :> {"cancel", "prepare_fails"})
    @@ (t3 :> {"confirm", "timeout"})
=============================================================================
