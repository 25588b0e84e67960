----------------------------- MODULE ConfigFile -----------------------------
(***************************************************************************)
(* ConfigFileReader: what a configuration file says of a key.  A line is   *)
(* what is left of it without its comment and the blanks around key and    *)
(* value; a line that is no pair has neither.                              *)
(***************************************************************************)
EXTENDS Integers, Sequences

CONSTANTS
  Key,      \* the keys of the configuration
  Word,     \* values that are no number (for stoi: or none of an int)
  Empty,    \* the empty string
  Missing,  \* a file that cannot be opened
  Files     \* bound: the files considered

Line == [key : Key \cup {Empty}, value : Word \cup Int \cup {Empty}]

ASSUME ConfigAssumption ==
  /\ Files \subseteq Seq(Line) \cup {Missing}
  /\ Missing \notin Seq(Line)
  /\ Empty \notin Key \cup Word \cup Int

\* loadOK_ is set by LoadFile alone, and only if the file is open: before that it
\* has not been initialised, and is whatever the memory holds.
LoadOK(file) == IF file = Missing THEN BOOLEAN ELSE {TRUE}

\* The lines that ParseLine puts into configMap_ under name.
Pairs(file, name) ==
  {i \in 1..Len(file) : file[i].key = name /\ file[i].value # Empty}

\* GetConfigValue of an object that is loaded: the last line wins, and a key that
\* is not there is the empty string.  (If not loaded it makes a string of a null
\* pointer, which throws.)
GetConfigValue(file, name) ==
  IF file = Missing \/ Pairs(file, name) = {} THEN Empty
  ELSE file[CHOOSE i \in Pairs(file, name) : \A j \in Pairs(file, name) : j <= i].value

\* static_cast<short>, and the conversion to std::uint16_t.
Width == 65536
Uint16 == 0..(Width - 1)
ToShort(n) == ((n + 32768) % Width) - 32768

\* Mutant: the port is kept in the short it was cast to.
KeptShort(n) == n
ToUint16(n) == n % Width
=============================================================================
