--------------------------- MODULE WeatherShapes ----------------------------
(***************************************************************************)
(* The shapes of the weather example: the value types of types.h, and how  *)
(* serde.cc reads and writes each of them.                                 *)
(***************************************************************************)
EXTENDS ShapeTypes

DeleteCityInput == Struct(<<Plain("cityId", Str)>>)
DeleteCityOutput == Struct(<<>>)
NoSuchResource == Struct(<<Plain("resourceType", Str)>>)
GetForecastInput == Struct(<<Plain("cityId", Str)>>)
GetForecastOutput == Struct(<<Opt("chanceOfRain", F32)>>)
GetCityInput == Struct(<<Plain("cityId", Str)>>)
CityCoordinates == Struct(<<Plain("latitude", F32), Plain("longitude", F32)>>)
GetCityOutput == Struct(<<Plain("name", Str), Plain("coordinates", Ref("CityCoordinates"))>>)
ListCitiesInput == Struct(<<Opt("nextToken", Str), Opt("pageSize", I32)>>)
CitySummary == Struct(<<Plain("cityId", Str), Plain("name", Str)>>)
ListCitiesOutput == Struct(<<Opt("nextToken", Str), Plain("items", List(Ref("CitySummary")))>>)
GetCurrentTimeInput == Struct(<<>>)
GetCurrentTimeOutput == Struct(<<Plain("time", Time)>>)
GetReportInput == Struct(<<Plain("reportPath", Str)>>)
GetReportOutput == Struct(<<Plain("path", Str), Plain("sizeBytes", I64)>>)

Types ==
  [DeleteCityInput |-> DeleteCityInput, DeleteCityOutput |-> DeleteCityOutput,
   NoSuchResource |-> NoSuchResource, GetForecastInput |-> GetForecastInput,
   GetForecastOutput |-> GetForecastOutput, GetCityInput |-> GetCityInput,
   CityCoordinates |-> CityCoordinates, GetCityOutput |-> GetCityOutput,
   ListCitiesInput |-> ListCitiesInput, CitySummary |-> CitySummary,
   ListCitiesOutput |-> ListCitiesOutput, GetCurrentTimeInput |-> GetCurrentTimeInput,
   GetCurrentTimeOutput |-> GetCurrentTimeOutput, GetReportInput |-> GetReportInput,
   GetReportOutput |-> GetReportOutput]

-----------------------------------------------------------------------------
DeleteCityInputSerde == Structure(<<Required("cityId", Str)>>)
DeleteCityOutputSerde == Structure(<<>>)
NoSuchResourceSerde == Structure(<<Required("resourceType", Str)>>)
GetForecastInputSerde == Structure(<<Required("cityId", Str)>>)
GetForecastOutputSerde == Structure(<<Optional("chanceOfRain", F32)>>)
GetCityInputSerde == Structure(<<Required("cityId", Str)>>)
CityCoordinatesSerde == Structure(<<Required("latitude", F32), Required("longitude", F32)>>)
GetCityOutputSerde == Structure(<<
  Required("name", Str), Required("coordinates", Ref("CityCoordinates"))>>)
ListCitiesInputSerde == Structure(<<Optional("nextToken", Str), Optional("pageSize", I32)>>)
CitySummarySerde == Structure(<<Required("cityId", Str), Required("name", Str)>>)
CitySummariesSerde == List(Ref("CitySummary"))
ListCitiesOutputSerde == Structure(<<
  Optional("nextToken", Str), Required("items", Ref("CitySummaries"))>>)
GetCurrentTimeInputSerde == Structure(<<>>)
GetCurrentTimeOutputSerde == Structure(<<Required("time", TimeAs("epoch-seconds"))>>)
GetReportInputSerde == Structure(<<Required("reportPath", Str)>>)
GetReportOutputSerde == Structure(<<Required("path", Str), Required("sizeBytes", I64)>>)

Serdes ==
  [DeleteCityInput |-> DeleteCityInputSerde, DeleteCityOutput |-> DeleteCityOutputSerde,
   NoSuchResource |-> NoSuchResourceSerde, GetForecastInput |-> GetForecastInputSerde,
   GetForecastOutput |-> GetForecastOutputSerde, GetCityInput |-> GetCityInputSerde,
   CityCoordinates |-> CityCoordinatesSerde, GetCityOutput |-> GetCityOutputSerde,
   ListCitiesInput |-> ListCitiesInputSerde, CitySummary |-> CitySummarySerde,
   CitySummaries |-> CitySummariesSerde, ListCitiesOutput |-> ListCitiesOutputSerde,
   GetCurrentTimeInput |-> GetCurrentTimeInputSerde,
   GetCurrentTimeOutput |-> GetCurrentTimeOutputSerde, GetReportInput |-> GetReportInputSerde,
   GetReportOutput |-> GetReportOutputSerde]
=============================================================================
