-------------------------- MODULE MCBrowserSession --------------------------
(* One browser for TLC: two tabs and three calls besides the silent        *)
(* refreshes of each tab.                                                  *)
EXTENDS BrowserSession, TLC

CallSymmetry == Permutations(Calls) \cup Permutations(Tabs) \cup Permutations(Sessions)
=============================================================================
