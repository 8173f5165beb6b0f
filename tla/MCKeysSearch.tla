---------------------------- MODULE MCKeysSearch ----------------------------
(* Small keyspaces for KeysSearch.                                          *)
EXTENDS KeysSearch

CONSTANTS k1, k2, k3, k4

MCKey == {k1, k2, k3, k4}

\* Two masters, and a key that SCAN returns twice: a run with a limit of 3 is
\* cut in the middle of the second page, with a page to come.
Busy == {<< << <<k1, k2>>, <<k2, k3>> >>, << <<k4>> >> >>}

MCFilters == {MCKey, {k2, k3}}
=============================================================================
