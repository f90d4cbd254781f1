CONSTANTS
    Categories = {1, 2}
    Variants = {1, 2}
    Urls = {channel, page}
    Channels = {channel}
    Labels = {"youtube.com", "#a", "#b"}
    Domain <- MCDomain
    TagsOf <- MCTagsOf
    MaxBookmarks = 2
    MaxLines = 3
SPECIFICATION Spec
INVARIANT OverrideTakesTheLine
