----------------------------- MODULE ChatShapes -----------------------------
(***************************************************************************)
(* The shapes of the chat example: the value types of types.h, and how     *)
(* serde.cc reads and writes each of them.                                 *)
(***************************************************************************)
EXTENDS ShapeTypes

LeaveNotice == Struct(<<Opt("reason", Str)>>)
ChatMessage == Struct(<<Plain("text", Str), Opt("sender", Str)>>)
ChatEvents == Union(<<Opt("message", Ref("ChatMessage")), Opt("leave", Ref("LeaveNotice"))>>)
ConverseInput == Struct(<<
  Plain("room", Str), Opt("nickname", Str), Opt("events", Ref("ChatEvents"))>>)
MemberJoined == Struct(<<Plain("member", Str)>>)
MemberLeft == Struct(<<Plain("member", Str)>>)
RoomEvents == Union(<<
  Opt("message", Ref("ChatMessage")), Opt("joined", Ref("MemberJoined")),
  Opt("left", Ref("MemberLeft"))>>)
ConverseOutput == Struct(<<Opt("events", Ref("RoomEvents"))>>)
Kicked == Struct(<<Opt("message", Str), Plain("by", Str)>>)
ListRoomsInput == Struct(<<>>)
RoomSummary == Struct(<<Plain("name", Str), Plain("members", I32)>>)
ListRoomsOutput == Struct(<<Plain("rooms", List(Ref("RoomSummary")))>>)
WatchInput == Struct(<<Plain("room", Str)>>)
WatchOutput == Struct(<<Opt("events", Ref("RoomEvents"))>>)

Types ==
  [LeaveNotice |-> LeaveNotice, ChatMessage |-> ChatMessage, ChatEvents |-> ChatEvents,
   ConverseInput |-> ConverseInput, MemberJoined |-> MemberJoined, MemberLeft |-> MemberLeft,
   RoomEvents |-> RoomEvents, ConverseOutput |-> ConverseOutput, Kicked |-> Kicked,
   ListRoomsInput |-> ListRoomsInput, RoomSummary |-> RoomSummary,
   ListRoomsOutput |-> ListRoomsOutput, WatchInput |-> WatchInput, WatchOutput |-> WatchOutput]

-----------------------------------------------------------------------------
LeaveNoticeSerde == Structure(<<Optional("reason", Str)>>)
ChatMessageSerde == Structure(<<Required("text", Str), Optional("sender", Str)>>)
ChatEventsSerde == Tagged(<<
  Optional("message", Ref("ChatMessage")), Optional("leave", Ref("LeaveNotice"))>>, FALSE)
ConverseInputSerde == Structure(<<
  Required("room", Str), Optional("nickname", Str), Optional("events", Ref("ChatEvents"))>>)
MemberJoinedSerde == Structure(<<Required("member", Str)>>)
MemberLeftSerde == Structure(<<Required("member", Str)>>)
RoomEventsSerde == Tagged(<<
  Optional("message", Ref("ChatMessage")), Optional("joined", Ref("MemberJoined")),
  Optional("left", Ref("MemberLeft"))>>, FALSE)
ConverseOutputSerde == Structure(<<Optional("events", Ref("RoomEvents"))>>)
KickedSerde == Structure(<<Optional("message", Str), Required("by", Str)>>)
ListRoomsInputSerde == Structure(<<>>)
RoomSummarySerde == Structure(<<Required("name", Str), Required("members", I32)>>)
RoomSummariesSerde == List(Ref("RoomSummary"))
ListRoomsOutputSerde == Structure(<<Required("rooms", Ref("RoomSummaries"))>>)
WatchInputSerde == Structure(<<Required("room", Str)>>)
WatchOutputSerde == Structure(<<Optional("events", Ref("RoomEvents"))>>)

Serdes ==
  [LeaveNotice |-> LeaveNoticeSerde, ChatMessage |-> ChatMessageSerde,
   ChatEvents |-> ChatEventsSerde, ConverseInput |-> ConverseInputSerde,
   MemberJoined |-> MemberJoinedSerde, MemberLeft |-> MemberLeftSerde,
   RoomEvents |-> RoomEventsSerde, ConverseOutput |-> ConverseOutputSerde,
   Kicked |-> KickedSerde, ListRoomsInput |-> ListRoomsInputSerde,
   RoomSummary |-> RoomSummarySerde, RoomSummaries |-> RoomSummariesSerde,
   ListRoomsOutput |-> ListRoomsOutputSerde, WatchInput |-> WatchInputSerde,
   WatchOutput |-> WatchOutputSerde]
=============================================================================
