---------------------------- MODULE MCProvenance ----------------------------
(* An instance of Provenance for TLC: a note that is indexed, a file of some   *)
(* other company, and an upload that may be a document of several pages, an     *)
(* image or a recording.                                                       *)
EXTENDS Provenance

CONSTANTS note, other, upload, own, foreign, question

Part(title, text, readable) == [title |-> title, text |-> text, readable |-> readable]
Pages(parts) == [modality |-> "text", kind |-> "pdf", parts |-> parts]
Sheets(parts) == [modality |-> "text", kind |-> "sheets", parts |-> parts]
Page(text) == Part(NoTitle, text, TRUE)
Described(modality, text) == [modality |-> modality, kind |-> "said", parts |-> <<Page(text)>>]

MCTexts == [f \in Files |-> CASE f = note  -> {[modality |-> "text", kind |-> "headed",
                                                parts |-> <<Part("rules", <<<<4>>>>, TRUE)>>]}
                              [] f = other -> {Described("text", <<<<3>>>>)}
                              [] OTHER     -> {Pages(<<Page(<<<<3, 3>>, <<4>>>>), Page(<<>>)>>),
                                               Pages(<<Page(<<>>), Page(<<<<18>>>>)>>),
                                               Pages(<<Part(NoTitle, <<<<2>>>>, FALSE)>>),
                                               Sheets(<<Part("empty", <<>>, TRUE),
                                                        Part("prices", <<<<2, 1>>, <<3, 1, 2>>>>, TRUE)>>),
                                               Described("image", <<<<3>>>>), Described("image", <<>>),
                                               Described("media", <<<<7, 2>>>>), Described("media", <<>>)}]

MCTenantOf == [f \in Files |-> IF f = other THEN foreign ELSE own]
MCAskTenant == [r \in Asks |-> own]
MCScopes == {Files, {upload}}
MCBudget == [kind \in {"chat", "agent"} |-> IF kind = "chat" THEN 16 ELSE 12]

MCConfigurations ==
    {[llm |-> "bedrock", embed |-> "bedrock", primary |-> "lite", fallback |-> "micro",
      vision |-> "lite"],
     [llm |-> "groq", embed |-> "cohere", primary |-> "llama", fallback |-> "micro",
      vision |-> "micro"],
     [llm |-> "local", embed |-> "local", primary |-> "lite", fallback |-> "micro",
      vision |-> "micro"]}

Marker(n, padded) == [number |-> n, padded |-> padded]
MCWritings == {{}, {Marker(1, FALSE)}, {Marker(1, FALSE), Marker(2, FALSE)},
               {Marker(2, TRUE)}, {Marker(1, FALSE), Marker(3, FALSE)}}
=============================================================================
