---------------------------- MODULE MCConfigFile ----------------------------
(* A small instance of ConfigFile: three services, of which one pattern      *)
(* covers two, and the shapes of text the user may have.                     *)
EXTENDS ConfigFile

MCCovered == [p \in {"a*"} |-> {"a1", "a2"}]

MCUserTexts == {
    \* remarks with brackets in and around the list, all of them matching
    <<Key, Watch, "a1", RemarkOpen, "b", RemarkClose, Close,
      Exclude, "a*", Close>>,
    <<RemarkOpen, Watch, RemarkOpen, RemarkClose, "a*", Close, Key>>,
    \* one that does not match, either way
    <<Watch, "b", RemarkClose, Close, Key>>,
    <<Watch, "b", RemarkOpen, Close, Key>>,
    \* no list
    <<RemarkOpen, Exclude, "b", Close>>,
    \* a list that excludes all it names, and a value out of its range
    <<Exclude, "b", "a*", Close, Watch, Close>>,
    <<Key, Watch, Close, BadKey>> }
=============================================================================
