-------------------------- MODULE BookstoreShapes ---------------------------
(***************************************************************************)
(* The shapes of the bookstore example: the value types of types.h, and    *)
(* how serde.cc reads and writes each of them.                             *)
(***************************************************************************)
EXTENDS ShapeTypes

AddBookInput == Struct(<<Plain("isbn", Str), Plain("title", Str)>>)
AddBookOutput == Struct(<<Plain("status", I32), Plain("isbn", Str)>>)
BookNotFound == Struct(<<Plain("message", Str), Plain("isbn", Str)>>)
GetBookInput == Struct(<<Plain("isbn", Str), Opt("currency", Str)>>)
GetBookOutput == Struct(<<Plain("isbn", Str), Plain("title", Str), Opt("price", F32)>>)

Types ==
  [AddBookInput |-> AddBookInput, AddBookOutput |-> AddBookOutput,
   BookNotFound |-> BookNotFound, GetBookInput |-> GetBookInput,
   GetBookOutput |-> GetBookOutput]

-----------------------------------------------------------------------------
AddBookInputSerde == Structure(<<Required("isbn", Str), Required("title", Str)>>)
AddBookOutputSerde == Structure(<<Required("status", I32), Required("isbn", Str)>>)
BookNotFoundSerde == Structure(<<Required("message", Str), Required("isbn", Str)>>)
GetBookInputSerde == Structure(<<Required("isbn", Str), Optional("currency", Str)>>)
GetBookOutputSerde == Structure(<<
  Required("isbn", Str), Required("title", Str), Optional("price", F32)>>)

Serdes ==
  [AddBookInput |-> AddBookInputSerde, AddBookOutput |-> AddBookOutputSerde,
   BookNotFound |-> BookNotFoundSerde, GetBookInput |-> GetBookInputSerde,
   GetBookOutput |-> GetBookOutputSerde]
=============================================================================
