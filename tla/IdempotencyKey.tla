--------------------------- MODULE IdempotencyKey ---------------------------
(***************************************************************************)
(* The idempotency key, as execution_idempotency.py writes it: the fields  *)
(* of a request in a row, with a separator between them that the fields    *)
(* may contain themselves.                                                 *)
(*                                                                         *)
(* A text is a sequence of tokens; a token is the separator or a piece of  *)
(* text without it.  run_id, exchange and symbol are free text; side and   *)
(* mode are single tokens.                                                 *)
(***************************************************************************)
EXTENDS Sequences

CONSTANTS
  Separator,   \* _IDEMPOTENCY_KEY_SEP
  Str          \* str() of the account ids, each a token

ASSUME KeyAssumption ==
  /\ Separator \in STRING
  /\ \A a \in DOMAIN Str : Str[a] \in STRING \ {Separator}
  /\ \A a, b \in DOMAIN Str : Str[a] = Str[b] => a = b

(* Mutant of BuildKey: the account is not part of the key.                 *)
BuildKeyOfRun(i) ==
  i.run_id \o <<Separator>> \o i.exchange \o <<Separator>> \o i.symbol
    \o <<Separator, i.side, Separator, i.mode>>

(* build_execution_idempotency_key *)
BuildKey(i) ==
  i.run_id \o <<Separator, Str[i.account_id], Separator>>
    \o i.exchange \o <<Separator>> \o i.symbol
    \o <<Separator, i.side, Separator, i.mode>>

(* A text in which the separator does not occur, as a uuid is. *)
IsPlain(text) == \A k \in DOMAIN text : text[k] # Separator

(* Inputs that can be told from their key: what follows the symbol is      *)
(* always side and mode, so the symbol may contain anything.               *)
IsSeparable(i) == IsPlain(i.run_id) /\ IsPlain(i.exchange)
=============================================================================
