\* A word list added in every order, edited, listed and listed again.
CONSTANTS
    Lines <- MCLines
    Guesses <- MCGuesses
    MaxEdits = 2
SPECIFICATION ToolsSpec
INVARIANTS ListingExact OrderOfLinesIrrelevant RoundTrip
