------------------------------- MODULE MCProxy -------------------------------
EXTENDS Proxy

\* The interface lists: one interface, two, one of them twice, and one that is
\* rejected before anything is registered
MCLists == {<<"Reader">>, <<"Reader", "Writer">>, <<"Reader", "Reader">>, <<"Concrete">>}

\* Rejected after an interface was registered
MCMixedLists == {<<"Reader">>, <<"Reader", "Concrete">>}
=============================================================================
