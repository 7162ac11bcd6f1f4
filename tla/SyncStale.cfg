\* Is a re-enriched article shown in its new translation?
CONSTANTS
  Articles = {a1}
  Devices = {d1}
  MaxWrites <- OneEach
SPECIFICATION OnlineSpec
PROPERTY TranslationsRefresh
